---- MODULE Spec2Model ----
(***************************************************************************)
(* Model of the prompt orchestration core of learn-cloud:                  *)
(*   prompt_utils/utils.py            detect_units                         *)
(*   prompt_utils/agent_handler.py    UnifiedAgentHandler (command builder) *)
(*   prompt_utils/state_manager.py    StateManager (execution state store) *)
(*   prompt_utils/execution_engine.py ExecutionEngine (orchestration loop) *)
(*                                                                         *)
(* A unit directory "unit<n>" is represented by its ordinal n; Python's    *)
(* None is NoUnit for a unit and the string "None" for a string field.     *)
(* The engine runs on one asyncio event loop: the code between two awaits  *)
(* is one atomic action, and stop_execution can only run while the engine  *)
(* is suspended in an await.                                               *)
(***************************************************************************)
EXTENDS Integers, Sequences, FiniteSets, TLC

\* ---------------------------------------------------------------- bounds
MaxUnit == 3
MaxSessions == 2

\* ------------------------------------------------------------- constants
\* _execute_with_retry(..., max_retries: int = 3)
max_retries == 3

None == "None"
NoUnit == 0
Units == 1..MaxUnit
UnitArgs == Units \cup {NoUnit}

\* Python truthiness of an Optional[str] configuration value
Truthy(v) == v # None /\ v # ""

\* ------------------------------------------------------------- sequences
RECURSIVE SortedSeq(_)
\* units.sort(key=ordinal): the ascending sequence of the members of S
SortedSeq(S) ==
    IF S = {} THEN <<>>
    ELSE LET m == CHOOSE a \in S : \A b \in S : a <= b
         IN  <<m>> \o SortedSeq(S \ {m})

Range(s) == {s[i] : i \in DOMAIN s}

Reverse(s) == [i \in DOMAIN s |-> s[Len(s) + 1 - i]]

IsPrefix(s, t) == Len(s) <= Len(t) /\ \A i \in DOMAIN s : s[i] = t[i]

HasFlag(cmd, flag) == \E i \in DOMAIN cmd : cmd[i] = flag

\* --------------------------------------------------------------- prompts
\* Two stored directives: A runs once per unit, B runs once for the project.
Prompts == {"A", "B"}

\* the directives of the YAML file, in file order: the two prompts the
\* sessions select and one more after them
Directives == Prompts \cup {"C"}

\* PromptConfig.execution_scope
execution_scope(p) == IF p = "A" THEN "per-unit" ELSE "single"

\* PromptConfig.scope_type (metadata['scope_type'])
scope_type(p) == execution_scope(p)

\* PromptConfig.prompt
PromptText(p) == IF p = "A" THEN "text of A" ELSE "text of B"

\* ------------------------------------------------------- agent profiles
\* agent_config dictionaries of agents.yaml; the claude one is the fixture
\* of test_manual_command_verification.
ClaudeProfile ==
    [agent_name |-> "claude", model |-> "sonnet", fallback_model |-> "haiku",
     param_yolo_mode |-> "--dangerously-skip-permissions",
     edition_available |-> TRUE, param_continue |-> "--continue",
     param_json_stream_output |-> <<>>, param_json_output |-> <<>>]

GeminiProfile ==
    [agent_name |-> "gemini", model |-> "pro", fallback_model |-> "flash",
     param_yolo_mode |-> "--yolo", edition_available |-> TRUE,
     param_continue |-> None,
     param_json_stream_output |-> <<>>, param_json_output |-> <<>>]

\* an agent of agents.yaml whose family the command builder does not know
CodexProfile ==
    [agent_name |-> "codex", model |-> "o1", fallback_model |-> None,
     param_yolo_mode |-> None, edition_available |-> FALSE,
     param_continue |-> None,
     param_json_stream_output |-> <<>>, param_json_output |-> <<>>]

\* the profiles an engine session is run with
EngineProfiles == {ClaudeProfile, GeminiProfile, CodexProfile}

\* every profile shape the command builder is exercised with
BuilderProfiles ==
    [agent_name : {"claude", "gemini", "codex"},
     model : {"sonnet"},
     fallback_model : {None, "haiku"},
     param_yolo_mode : {None, "--dangerously-skip-permissions"},
     edition_available : BOOLEAN,
     param_continue : {None, "--continue"},
     param_json_stream_output : {<<>>},
     param_json_output : {<<>>, <<"--output-format", "json">>}]

Scopes == {"single", "per-unit", None}

\* ------------------------------------------------------------- variables
VARIABLES
    tree,          \* ordinals of the unit directories under src/book
    profile,       \* the agent_config the engine sessions use
    store,         \* <agent>_executions.json: sequence of ExecutionState
    history,       \* per prompt: metadata.execution.results of the YAML
    yaml_status,   \* per prompt: metadata.execution.execution_status
    is_running,    \* ExecutionEngine.is_running
    should_stop,   \* ExecutionEngine.should_stop
    pc,            \* where the session's coroutine is suspended
    session,       \* arguments of execute_prompts and its loop indices
    unitrun,       \* locals of _execute_per_unit_prompt / _execute_with_retry
    audit,         \* audit entries the session created, one per attempt
    results,       \* the dict execute_prompts builds and returns
    raised,        \* exception execute_prompts raised, or "none"
    current_stats, \* ExecutionEngine.current_stats
    nsessions,     \* execute_prompts calls made so far
    prompt_text,   \* per directive of the YAML: its 'prompt' string
    log_entry,     \* the ExecutionLogEntry of a direct audit logger call
    handler_call,  \* the last direct call of execute_agent_prompt
    persisted,     \* the last records saved and loaded again, directly
    options,       \* the last answer of get_resumption_options
    catalog,       \* per directive of the YAML: edit and execution status
    listing,       \* the last answer of get_executable_prompts
    trail,         \* the audit logger's clock, entries and execution log files
    rejected,      \* execute_prompts calls made while a session is active
    detector,      \* src/book as detect_units lists it, and what it returned
    status_call,   \* the last call of update_execution_status and what it returned
    built          \* the last command built by a direct builder call

\* what the direct calls of the builder, the audit logger, the agent handler
\* and the state manager \* leave behind; the engine sessions do not touch it
direct_vars == <<built, status_call, detector, rejected, trail, listing, catalog, log_entry, handler_call, options, persisted>>

vars == <<tree, profile, store, history, yaml_status, prompt_text, is_running, should_stop,
          pc, session, unitrun, audit, results, raised, current_stats,
          nsessions, direct_vars>>

engine_vars == <<profile, store, history, yaml_status, prompt_text, is_running, should_stop,
                 pc, session, unitrun, audit, results, raised, current_stats,
                 nsessions>>


\* ----------------------------------------------------------- YAML texts
\* a string of the YAML, as a sequence of characters: a letter, a blank, a
\* newline
Chars == {"w", "sp", "nl"}
Whitespace == {"sp", "nl"}

\* str.split(sep)
RECURSIVE Split(_, _)
Split(s, sep) ==
    LET hits == {i \in 1..(Len(s) - Len(sep) + 1) :
                    SubSeq(s, i, i + Len(sep) - 1) = sep}
    IN  IF hits = {} THEN <<s>>
        ELSE LET i == CHOOSE k \in hits : \A j \in hits : k <= j
             IN  <<SubSeq(s, 1, i - 1)>>
                    \o Split(SubSeq(s, i + Len(sep), Len(s)), sep)

\* str.rstrip()
RECURSIVE RStrip(_)
RStrip(s) ==
    IF s # <<>> /\ s[Len(s)] \in Whitespace
    THEN RStrip(SubSeq(s, 1, Len(s) - 1)) ELSE s

\* str.lstrip()
RECURSIVE LStrip(_)
LStrip(s) == IF s # <<>> /\ Head(s) \in Whitespace THEN LStrip(Tail(s)) ELSE s

\* str.strip()
Strip(s) == LStrip(RStrip(s))

\* ' '.join(parts)
RECURSIVE Join(_)
Join(parts) ==
    IF parts = <<>> THEN <<>>
    ELSE IF Len(parts) = 1 THEN parts[1]
    ELSE parts[1] \o <<"sp">> \o Join(Tail(parts))

\* the stripped, non-empty elements of a list of strings
RECURSIVE CleanLines(_)
CleanLines(lines) ==
    IF lines = <<>> THEN <<>>
    ELSE (IF Strip(Head(lines)) # <<>> THEN <<Strip(Head(lines))>> ELSE <<>>)
            \o CleanLines(Tail(lines))

\* preprocess_text_for_yaml, the loop over the paragraphs: each paragraph that
\* is not blank becomes its clean lines joined by blanks
RECURSIVE Sentences(_)
Sentences(paragraphs) ==
    IF paragraphs = <<>> THEN <<>>
    ELSE LET clean_lines == CleanLines(Split(Head(paragraphs), <<"nl">>))
         IN  (IF Strip(Head(paragraphs)) # <<>> /\ clean_lines # <<>>
              THEN <<Join(clean_lines)>> ELSE <<>>)
                \o Sentences(Tail(paragraphs))

\* faulty variant: strings are written as they are
preprocess_text_for_yaml_id(text) == text

\* text.replace('\\n', '\n'): the two characters backslash, n become a newline
RECURSIVE ReplaceBackslashN(_)
ReplaceBackslashN(s) ==
    IF Len(s) < 2 THEN s
    ELSE IF s[1] = "bs" /\ s[2] = "n"
    THEN <<"nl">> \o ReplaceBackslashN(SubSeq(s, 3, Len(s)))
    ELSE <<Head(s)>> \o ReplaceBackslashN(Tail(s))

\* yaml_utils.preprocess_text_for_yaml
preprocess_text_for_yaml(text) ==
    RStrip(Join(Sentences(Split(ReplaceBackslashN(text), <<"nl", "nl">>))))

\* yaml_utils.save_yaml_multiline followed by a load of the file: every
\* string of the document goes through preprocess_data_for_yaml
save_yaml_multiline(texts) ==
    [d \in DOMAIN texts |-> preprocess_text_for_yaml(texts[d])]

\* the text of a field that is None
NoText == <<>>

\* json.dumps of a string: the quotes, and the escapes of a newline and of a
\* backslash
RECURSIVE JsonEscape(_)
JsonEscape(s) ==
    IF s = <<>> THEN <<>>
    ELSE (IF Head(s) = "nl" THEN <<"bs", "n">>
          ELSE IF Head(s) = "bs" THEN <<"bs", "bs">>
          ELSE <<Head(s)>>) \o JsonEscape(Tail(s))

json_dumps(s) == <<"quote">> \o JsonEscape(s) \o <<"quote">>

\* json.loads of a string literal
RECURSIVE JsonUnescape(_)
JsonUnescape(s) ==
    IF s = <<>> THEN <<>>
    ELSE IF Head(s) = "bs" /\ Len(s) >= 2
    THEN (IF s[2] = "n" THEN <<"nl">> ELSE <<s[2]>>)
            \o JsonUnescape(SubSeq(s, 3, Len(s)))
    ELSE <<Head(s)>> \o JsonUnescape(Tail(s))

json_loads(s) == JsonUnescape(SubSeq(s, 2, Len(s) - 1))

\* StateManager.save_execution_states: the 'executions' list as it is written
save_execution_states(states) ==
    [i \in DOMAIN states |->
        [states[i] EXCEPT !.result = json_dumps(@),
                          !.error_message = json_dumps(@)]]

\* StateManager.load_execution_states: the list read back
load_execution_states(written) ==
    [i \in DOMAIN written |->
        [written[i] EXCEPT !.result = json_loads(@),
                           !.error_message = json_loads(@)]]

\* UnifiedPrompt.to_dict, save_yaml_multiline, a load of the file and
\* UnifiedPrompt.from_dict with its execution_metadata: the results of the
\* prompt as they come back
save_and_load_results(rs) ==
    [i \in DOMAIN rs |->
        [rs[i] EXCEPT !.result = preprocess_text_for_yaml(@),
                      !.error_message = preprocess_text_for_yaml(@)]]

NoPersisted == [done |-> FALSE]

\* what the agent process of an engine session writes
AgentOutput == <<"w">>

\* _update_yaml_metadata: the execution_result dictionary it appends
execution_result(unit, result, agent_name, output) ==
    [unit |-> unit, success |-> result.success, agent_name |-> agent_name,
     output_preview |-> IF result.success THEN output ELSE NoText]

\* save_yaml_multiline followed by a load, for the results of the document
save_yaml_results(hist) ==
    [d \in DOMAIN hist |->
        [i \in DOMAIN hist[d] |->
            [hist[d][i] EXCEPT
                !.output_preview = preprocess_text_for_yaml(@)]]]

\* faulty variant: the new result takes the place of the last one
_update_yaml_results_replace(hist, prompt_id, entry) ==
    save_yaml_results([hist EXCEPT ![prompt_id] =
        IF @ = <<>> THEN <<entry>>
        ELSE [@ EXCEPT ![Len(@)] = entry]])

\* _update_yaml_metadata: the result is appended to the results of the
\* prompt and the whole document is written
_update_yaml_results(hist, prompt_id, entry) ==
    save_yaml_results([hist EXCEPT ![prompt_id] = Append(@, entry)])

\* ------------------------------------------------------- error classifier
\* Output is a sequence of words; a regular expression of ErrorPattern is the
\* set of its alternatives, each a sequence of words, and it is found in a
\* text when one alternative occurs in it as consecutive words.
MaxWords == 3

\* the words the outputs of an agent process are made of
Words == {"ok", "5-hour", "limit", "reached", "rate", "network", "timeout",
          "permission", "denied", "ERROR:"}

\* str.lower(), also what re.IGNORECASE does to the pattern
LowerWord(w) ==
    IF w = "ERROR:" THEN "error:"
    ELSE IF w = "Exception:" THEN "exception:"
    ELSE IF w = "json.decoder.JSONDecodeError" THEN "json.decoder.jsondecodeerror"
    ELSE w

Lower(text) == [i \in DOMAIN text |-> LowerWord(text[i])]

\* ErrorPattern.CLAUDE_PATTERNS
CLAUDE_PATTERNS ==
    <<[alts |-> {<<"5-hour", "limit", "reached">>, <<"5", "hour", "limit">>},
       status |-> "failed_rate_limit"],
      [alts |-> {<<"rate", "limit">>, <<"quota", "exceeded">>,
                 <<"too", "many", "requests">>},
       status |-> "failed_rate_limit"],
      [alts |-> {<<"authentication", "failed">>, <<"invalid", "api", "key">>},
       status |-> "failed_permissions"]>>

\* ErrorPattern.GEMINI_PATTERNS
GEMINI_PATTERNS ==
    <<[alts |-> {<<"daily", "limit">>, <<"quota", "exceeded">>},
       status |-> "failed_rate_limit"],
      [alts |-> {<<"rate", "limit", "exceeded">>},
       status |-> "failed_rate_limit"],
      [alts |-> {<<"authentication", "error">>, <<"invalid", "key">>},
       status |-> "failed_permissions"],
      [alts |-> {<<"network", "timeout">>}, status |-> "failed_network"],
      [alts |-> {<<"forbidden">>}, status |-> "failed_permissions"]>>

\* ErrorPattern.GENERAL_PATTERNS
GENERAL_PATTERNS ==
    <<[alts |-> {<<"timeout">>, <<"timed", "out">>},
       status |-> "failed_timeout"],
      [alts |-> {<<"connection", "refused">>, <<"network", "error">>,
                 <<"connection", "error">>},
       status |-> "failed_network"],
      [alts |-> {<<"permission", "denied">>, <<"access", "denied">>},
       status |-> "failed_permissions"],
      [alts |-> {<<"json.decoder.JSONDecodeError">>, <<"invalid", "json">>},
       status |-> "failed_parsing"],
      [alts |-> {<<"parse", "error">>, <<"parsing", "failed">>},
       status |-> "failed_parsing"],
      [alts |-> {<<"error:">>, <<"ERROR:">>}, status |-> "failed_unknown"],
      [alts |-> {<<"exception:">>, <<"Exception:">>},
       status |-> "failed_unknown"],
      [alts |-> {<<"failed", "to">>, <<"failure:">>},
       status |-> "failed_unknown"],
      [alts |-> {<<"unable", "to">>, <<"cannot">>},
       status |-> "failed_unknown"]>>

\* re.search(pattern, text, re.IGNORECASE)
Search(pattern, text) ==
    \E alt \in pattern.alts :
        \E i \in 1..(Len(text) - Len(alt) + 1) :
            Lower(SubSeq(text, i, i + Len(alt) - 1)) = Lower(alt)

\* the agent names the audit logger is called with
AgentNames == {"claude-sonnet-3.5", "gemini-pro", "codex"}

\* "claude" in agent_name.lower() / "gemini" in agent_name.lower()
NameContains(agent_name, family) ==
    \/ family = "claude" /\ agent_name = "claude-sonnet-3.5"
    \/ family = "gemini" /\ agent_name = "gemini-pro"

\* analyze_output: the pattern list it walks
PatternsFor(agent_name) ==
    (IF NameContains(agent_name, "claude") THEN CLAUDE_PATTERNS
     ELSE IF NameContains(agent_name, "gemini") THEN GEMINI_PATTERNS
     ELSE <<>>) \o GENERAL_PATTERNS

\* faulty variant: the last matching pattern decides
analyze_output_last(output, stderr, agent_name) ==
    LET combined_output == Lower(output \o <<"\n">> \o stderr)
        patterns == PatternsFor(agent_name)
        hits == {i \in DOMAIN patterns : Search(patterns[i], combined_output)}
    IN  IF hits = {} THEN [status |-> "completed", description |-> None]
        ELSE LET last == CHOOSE i \in hits : \A j \in hits : i >= j
             IN  [status |-> patterns[last].status,
                  description |-> "Detected error pattern"]

\* ErrorPattern.analyze_output
analyze_output(output, stderr, agent_name) ==
    LET combined_output == Lower(output \o <<"\n">> \o stderr)
        patterns == PatternsFor(agent_name)
        hits == {i \in DOMAIN patterns : Search(patterns[i], combined_output)}
    IN  IF hits = {} THEN [status |-> "completed", description |-> None]
        ELSE LET first == CHOOSE i \in hits : \A j \in hits : i <= j
             IN  [status |-> patterns[first].status,
                  description |-> "Detected error pattern"]

\* faulty variant: a zero exit code without an exception means completed
complete_execution_entry_exit_code(entry, stdout, stderr, exit_code, exception) ==
    [entry EXCEPT
        !.completed = TRUE,
        !.execution_status =
            IF exception \/ exit_code # 0
            THEN IF analyze_output(stdout, stderr, entry.agent_name).status
                        = "completed"
                 THEN "failed_unknown"
                 ELSE analyze_output(stdout, stderr, entry.agent_name).status
            ELSE "completed",
        !.error_analysis =
            analyze_output(stdout, stderr, entry.agent_name).description]

\* AuditLogger.complete_execution_entry: the fields the analysis sets
complete_execution_entry(entry, stdout, stderr, exit_code, exception) ==
    LET analysis == analyze_output(stdout, stderr, entry.agent_name)
    IN  [entry EXCEPT
            !.completed = TRUE,
            !.execution_status =
                IF (exception \/ exit_code # 0) /\ analysis.status = "completed"
                THEN "failed_unknown" ELSE analysis.status,
            !.error_analysis = analysis.description]

\* no audit logger call made
NoEntry ==
    [completed |-> FALSE, agent_name |-> "None", stdout |-> <<>>,
     stderr |-> <<>>, exit_code |-> 0, exception |-> FALSE,
     execution_status |-> "pending", error_analysis |-> None]

\* ------------------------------------------------------ partition detector
\* utils.detect_units(): the unit directories sorted by ordinal
detect_units == SortedSeq(tree)

\* what a caller of detect_units() gets: the list, or an exception
\* faulty variant: the list of the first call is kept for the later ones
Detected_cached(ok) ==
    IF built.called THEN built.detected
    ELSE [ok |-> ok, units |-> IF ok THEN detect_units ELSE <<>>]

Detected(ok) == [ok |-> ok, units |-> IF ok THEN detect_units ELSE <<>>]

\* -------------------------------------------------- agent command builder
\* faulty variant: the first-unit test is dropped
_should_use_continue_no_first(scope, unit, detected) ==
    scope = "per-unit" /\ unit # NoUnit /\ detected.ok

\* faulty variant: the single-unit guard is dropped
_should_use_continue_no_len(scope, unit, detected) ==
    /\ scope = "per-unit"
    /\ unit # NoUnit
    /\ detected.ok
    /\ (Len(detected.units) = 0 \/ unit # detected.units[1])

\* faulty variant: the scope test is dropped
_should_use_continue_no_scope(scope, unit, detected) ==
    /\ unit # NoUnit
    /\ detected.ok
    /\ Len(detected.units) > 1
    /\ unit # detected.units[1]

\* UnifiedAgentHandler._should_use_continue; detected is the outcome of the
\* detect_units() call it makes
\* faulty variant: without the live list the flag is used
_should_use_continue_fail_open(scope, unit, detected) ==
    IF scope # "per-unit" THEN FALSE
    ELSE IF unit = NoUnit THEN FALSE
    ELSE IF ~detected.ok THEN TRUE
    ELSE IF Len(detected.units) <= 1 THEN FALSE
    ELSE unit # detected.units[1]

_should_use_continue(scope, unit, detected) ==
    IF scope # "per-unit" THEN FALSE
    ELSE IF unit = NoUnit THEN FALSE
    ELSE IF ~detected.ok THEN FALSE
    ELSE IF Len(detected.units) <= 1 THEN FALSE
    ELSE unit # detected.units[1]

\* faulty variant: the flags are added whatever the mode
_build_claude_command_any_mode(agent_config, prompt, yolo_run, unit, scope, detected) ==
    LET c0 == <<"claude", "--model", agent_config.model>>
        c3 == IF /\ agent_config.edition_available
                 /\ Truthy(agent_config.param_yolo_mode)
              THEN Append(c0, agent_config.param_yolo_mode) ELSE c0
        c4 == IF /\ Truthy(agent_config.param_continue)
                 /\ _should_use_continue(scope, unit, detected)
              THEN Append(c3, agent_config.param_continue) ELSE c3
    IN  c4 \o <<"-p", prompt>>

\* UnifiedAgentHandler._build_claude_command
_build_claude_command(agent_config, prompt, yolo_run, unit, scope, detected) ==
    LET c0 == <<"claude">>
        c1 == IF Truthy(agent_config.model)
              THEN c0 \o <<"--model", agent_config.model>> ELSE c0
        c2 == IF Truthy(agent_config.fallback_model)
              THEN c1 \o <<"--fallback-model", agent_config.fallback_model>>
              ELSE c1
        c3 == IF /\ yolo_run
                 /\ agent_config.edition_available
                 /\ Truthy(agent_config.param_yolo_mode)
              THEN Append(c2, agent_config.param_yolo_mode) ELSE c2
        c4 == IF /\ yolo_run
                 /\ Truthy(agent_config.param_continue)
                 /\ _should_use_continue(scope, unit, detected)
              THEN Append(c3, agent_config.param_continue) ELSE c3
        c5 == IF ~yolo_run THEN c4
              ELSE IF agent_config.param_json_stream_output # <<>>
              THEN c4 \o agent_config.param_json_stream_output
              ELSE c4 \o agent_config.param_json_output
    IN  c5 \o <<"-p", prompt>>

\* UnifiedAgentHandler._build_gemini_command
_build_gemini_command(agent_config, prompt, yolo_run) ==
    LET c0 == <<"gemini">>
        c1 == IF Truthy(agent_config.model)
              THEN c0 \o <<"-m", agent_config.model>> ELSE c0
        c2 == IF /\ yolo_run
                 /\ agent_config.edition_available
                 /\ Truthy(agent_config.param_yolo_mode)
              THEN Append(c1, agent_config.param_yolo_mode) ELSE c1
    IN  c2 \o <<"-a", "-p", prompt>>

\* UnifiedAgentHandler._build_agent_command: the command, or ValueError
_build_agent_command(agent_config, prompt, yolo_run, unit, scope, detected) ==
    IF agent_config.agent_name = "claude"
    THEN [error |-> "none",
          cmd |-> _build_claude_command(agent_config, prompt, yolo_run, unit,
                                        scope, detected)]
    ELSE IF agent_config.agent_name = "gemini"
    THEN [error |-> "none",
          cmd |-> _build_gemini_command(agent_config, prompt, yolo_run)]
    ELSE [error |-> "ValueError", cmd |-> <<>>]

\* ------------------------------------------------------ running the agent
\* the timeout argument of execute_agent_prompt: None or a number of seconds
Timeouts == {None, "30"}

\* how a launched agent process ends: its exit code, or the exception that
\* subprocess raises
ProcessOutcomes == {"exit0", "exit1", "TimeoutExpired", "OSError"}

\* one launch of the agent process: the method that launched it, the command
\* and the timeout subprocess was given
Launch(method, cmd, timeout) ==
    [method |-> method, cmd |-> cmd, timeout |-> timeout]

\* AgentExecutionResult, with the launches that led to it
AgentExecutionResult(success, error, timeout_occurred, fallback_used, runs) ==
    [success |-> success, error |-> error,
     timeout_occurred |-> timeout_occurred, fallback_used |-> fallback_used,
     model_used |-> <<>>, runs |-> runs]

\* AgentExecutionResult(..., model_used=model_used)
ModelUsed(result, model_used) == [result EXCEPT !.model_used = model_used]

\* UnifiedAgentHandler._execute_standard: subprocess.run without a timeout
_execute_standard(cmd, agent_config, outcome) ==
    LET runs == <<Launch("_execute_standard", cmd, None)>>
    IN  IF outcome = "exit0"
        THEN ModelUsed(AgentExecutionResult(TRUE, "none", FALSE, FALSE, runs),
                       <<agent_config.model>>)
        ELSE IF outcome = "exit1"
        THEN ModelUsed(AgentExecutionResult(FALSE, "stderr", FALSE, FALSE, runs),
                       <<agent_config.model>>)
        ELSE AgentExecutionResult(FALSE, "exception", FALSE, FALSE, runs)

\* list.index: the first position of x in seq, 0 for ValueError
Index(seq, x) ==
    IF \E i \in DOMAIN seq : seq[i] = x
    THEN CHOOSE i \in DOMAIN seq :
             seq[i] = x /\ \A j \in DOMAIN seq : j < i => seq[j] # x
    ELSE 0

\* UnifiedAgentHandler._execute_fallback
_execute_fallback(original_cmd, agent_config, fallback_model, timeout, first_runs, outcome) ==
    LET model_index == Index(original_cmd, "-m")
        fallback_cmd ==
            IF agent_config.agent_name = "gemini" /\ model_index # 0
            THEN [original_cmd EXCEPT ![model_index + 1] = fallback_model]
            ELSE original_cmd
        runs == Append(first_runs,
                       Launch("_execute_fallback", fallback_cmd, timeout))
    IN  IF agent_config.agent_name = "gemini" /\ model_index = 0
        THEN AgentExecutionResult(FALSE,
                 "Fallback command construction failed", FALSE, FALSE,
                 first_runs)
        ELSE IF outcome = "exit0"
        THEN ModelUsed(AgentExecutionResult(TRUE, "none", FALSE, TRUE, runs),
                       <<agent_config.model, "->", fallback_model>>)
        ELSE IF outcome = "exit1"
        THEN ModelUsed(AgentExecutionResult(FALSE, "Fallback model error",
                                            FALSE, TRUE, runs),
                       <<fallback_model>>)
        ELSE IF outcome = "TimeoutExpired"
        THEN AgentExecutionResult(FALSE, "Fallback model also timed out",
                                  TRUE, TRUE, runs)
        ELSE AgentExecutionResult(FALSE, "Fallback execution failed", FALSE,
                                  TRUE, runs)

\* faulty variant: the fallback model is tried for claude as well
_execute_with_timeout_every_agent(cmd, agent_config, timeout, outcome, fallback_outcome) ==
    LET runs == <<Launch("_execute_with_timeout", cmd, timeout)>>
    IN  IF outcome = "TimeoutExpired" /\ Truthy(agent_config.fallback_model)
        THEN _execute_fallback(cmd, agent_config, agent_config.fallback_model,
                               timeout, runs, fallback_outcome)
        ELSE AgentExecutionResult(outcome = "exit0", "none",
                                  outcome = "TimeoutExpired", FALSE, runs)

\* UnifiedAgentHandler._execute_with_timeout: subprocess.run with the timeout,
\* and the fallback model after a timeout of an agent other than claude
_execute_with_timeout(cmd, agent_config, timeout, outcome, fallback_outcome) ==
    LET runs == <<Launch("_execute_with_timeout", cmd, timeout)>>
    IN  IF outcome = "exit0"
        THEN ModelUsed(AgentExecutionResult(TRUE, "none", FALSE, FALSE, runs),
                       <<agent_config.model>>)
        ELSE IF outcome = "exit1"
        THEN ModelUsed(AgentExecutionResult(FALSE, "stderr", FALSE, FALSE, runs),
                       <<agent_config.model>>)
        ELSE IF outcome = "TimeoutExpired"
        THEN IF /\ Truthy(agent_config.fallback_model)
                /\ agent_config.agent_name # "claude"
             THEN _execute_fallback(cmd, agent_config,
                      agent_config.fallback_model, timeout, runs,
                      fallback_outcome)
             ELSE AgentExecutionResult(FALSE, "Timeout", TRUE, FALSE, runs)
        ELSE AgentExecutionResult(FALSE, "exception", FALSE, FALSE, runs)

\* UnifiedAgentHandler._execute_with_streaming: subprocess.Popen read line by
\* line, for claude with a streaming output parameter; _execute_standard for
\* every other agent
_execute_with_streaming(cmd, agent_config, outcome) ==
    LET has_streaming == /\ agent_config.agent_name = "claude"
                         /\ agent_config.param_json_stream_output # <<>>
        runs == <<Launch("_execute_with_streaming", cmd, None)>>
    IN  IF ~has_streaming
        THEN _execute_standard(cmd, agent_config, outcome)
        ELSE IF outcome = "exit0"
        THEN ModelUsed(AgentExecutionResult(TRUE, "none", FALSE, FALSE, runs),
                       <<agent_config.model>>)
        ELSE IF outcome = "exit1"
        THEN ModelUsed(AgentExecutionResult(FALSE, "stderr", FALSE, FALSE, runs),
                       <<agent_config.model>>)
        ELSE AgentExecutionResult(FALSE, "Streaming execution failed", FALSE,
                                  FALSE, runs)

\* faulty variant: the timeout is applied whenever one is given
execute_agent_prompt_any_mode(prompt, agent_config, yolo_run, timeout, streaming_callback, unit, scope, detected, outcome, fallback_outcome) ==
    LET b == _build_agent_command(agent_config, prompt, yolo_run, unit, scope,
                                  detected)
    IN  IF b.error # "none"
        THEN AgentExecutionResult(FALSE, "Execution failed", FALSE, FALSE,
                                  <<>>)
        ELSE IF Truthy(timeout)
        THEN _execute_with_timeout(b.cmd, agent_config, timeout, outcome,
                                   fallback_outcome)
        ELSE IF yolo_run /\ streaming_callback
        THEN _execute_with_streaming(b.cmd, agent_config, outcome)
        ELSE _execute_standard(b.cmd, agent_config, outcome)

\* UnifiedAgentHandler.execute_agent_prompt: the command is built, then run
\* by the method that the mode, the timeout and the callback select; an
\* exception of the builder becomes a failed result
execute_agent_prompt(prompt, agent_config, yolo_run, timeout, streaming_callback, unit, scope, detected, outcome, fallback_outcome) ==
    LET b == _build_agent_command(agent_config, prompt, yolo_run, unit, scope,
                                  detected)
    IN  IF b.error # "none"
        THEN AgentExecutionResult(FALSE, "Execution failed", FALSE, FALSE,
                                  <<>>)
        ELSE IF yolo_run /\ streaming_callback
        THEN _execute_with_streaming(b.cmd, agent_config, outcome)
        ELSE IF ~yolo_run /\ Truthy(timeout)
        THEN _execute_with_timeout(b.cmd, agent_config, timeout, outcome,
                                   fallback_outcome)
        ELSE _execute_standard(b.cmd, agent_config, outcome)

\* the mode, the timeout and the callback that _run_prompt_async passes to
\* execute_agent_prompt
EngineCall == [yolo_run |-> TRUE, timeout |-> None, streaming_callback |-> TRUE]

\* the profiles the handler is called with: those of the engine, a gemini
\* without fallback model, a gemini without model and a claude with streaming
\* output
HandlerProfiles ==
    EngineProfiles \cup
    {[GeminiProfile EXCEPT !.fallback_model = None],
     [GeminiProfile EXCEPT !.model = None],
     [ClaudeProfile EXCEPT
         !.param_json_stream_output = <<"--output-format", "stream-json">>]}

NoCall == [called |-> FALSE]

\* the record of a call of execute_agent_prompt: who made it, its arguments
\* and what it returned
HandlerCall(caller, agent_config, yolo_run, timeout, streaming_callback, unit, scope, result) ==
    [called |-> TRUE, caller |-> caller, agent_config |-> agent_config,
     yolo_run |-> yolo_run, timeout |-> timeout,
     streaming_callback |-> streaming_callback, unit |-> unit,
     scope |-> scope, result |-> result]

\* how the agent process, and the process of the fallback model, ended in
\* the recorded call
Outcomes(call, outcome, fallback_outcome) ==
    call @@ [outcome |-> outcome, fallback_outcome |-> fallback_outcome]

\* A direct call of execute_agent_prompt, as prompt_manager and the tests
\* make it
ExecuteAgentPrompt ==
    /\ pc = "idle"
    /\ ~handler_call.called
    /\ \E agent_config \in HandlerProfiles, yolo_run \in BOOLEAN,
          timeout \in Timeouts, streaming_callback \in BOOLEAN,
          unit \in UnitArgs, scope \in Scopes,
          outcome \in ProcessOutcomes, fallback_outcome \in ProcessOutcomes :
          handler_call' = Outcomes(
              HandlerCall("direct", agent_config, yolo_run, timeout,
                  streaming_callback, unit, scope,
                  execute_agent_prompt("text", agent_config, yolo_run,
                      timeout, streaming_callback, unit, scope,
                      Detected(TRUE), outcome, fallback_outcome)),
              outcome, fallback_outcome)
    /\ UNCHANGED <<tree, engine_vars, built, log_entry, options, persisted, catalog, listing, trail, rejected, detector, status_call>>

\* The call that _run_prompt_async makes for a directive and a unit
RunPromptCall ==
    /\ pc = "idle"
    /\ ~handler_call.called
    /\ \E p \in Prompts, unit \in UnitArgs,
          outcome \in ProcessOutcomes, fallback_outcome \in ProcessOutcomes :
          handler_call' = Outcomes(
              HandlerCall("engine", profile, EngineCall.yolo_run,
                  EngineCall.timeout, EngineCall.streaming_callback, unit,
                  execution_scope(p),
                  execute_agent_prompt(PromptText(p), profile,
                      EngineCall.yolo_run, EngineCall.timeout,
                      EngineCall.streaming_callback, unit,
                      execution_scope(p), Detected(TRUE), outcome,
                      fallback_outcome)),
              outcome, fallback_outcome)
    /\ UNCHANGED <<tree, engine_vars, built, log_entry, options, persisted, catalog, listing, trail, rejected, detector, status_call>>

NoBuild == [called |-> FALSE]

\* A direct call of the builder, as the tests and prompt_manager make it
MaxBuilds == 2

\* the record of a direct call of the builder: its arguments, what
\* detect_units() gave it, what it returned, how many calls were made and what
\* the call before it decided
BuildResult(agent_config, yolo_run, unit, scope, detected, previous) ==
    [called |-> TRUE, agent_config |-> agent_config, yolo_run |-> yolo_run,
     unit |-> unit, scope |-> scope, detected |-> detected,
     eligible |-> _should_use_continue(scope, unit, detected),
     out |-> _build_agent_command(agent_config, "text", yolo_run, unit, scope,
                                  detected),
     calls |-> IF previous.called THEN previous.calls + 1 ELSE 1,
     prev_eligible |-> previous.called /\ previous.eligible]

BuildCommand ==
    /\ pc = "idle"
    /\ ~built.called
    /\ \E agent_config \in BuilderProfiles, yolo_run \in BOOLEAN,
          unit \in UnitArgs, scope \in Scopes, ok \in BOOLEAN :
          built' = BuildResult(agent_config, yolo_run, unit, scope,
                               Detected(ok), built)
    /\ UNCHANGED <<tree, engine_vars, log_entry, handler_call, options, persisted, catalog, listing, trail, rejected, detector, status_call>>

\* The same call again, over the project tree as it is then
BuildCommandAgain ==
    /\ pc = "idle"
    /\ built.called
    /\ built.calls < MaxBuilds
    /\ \E ok \in BOOLEAN :
          built' = BuildResult(built.agent_config, built.yolo_run, built.unit,
                               built.scope, Detected(ok), built)
    /\ UNCHANGED <<tree, engine_vars, log_entry, handler_call, options, persisted, catalog, listing, trail, rejected, detector, status_call>>

\* The project tree changes between two sessions: one unit directory appears
\* or disappears
ChangeTree ==
    /\ pc = "idle"
    /\ 0 < nsessions /\ nsessions < MaxSessions
    /\ tree = Range(session.available_units)
    /\ \E u \in Units :
          tree' = IF u \in tree THEN tree \ {u} ELSE tree \cup {u}
    /\ UNCHANGED <<engine_vars, direct_vars>>

\* The project tree changes between two command builds, no session running
ChangeTreeIdle ==
    /\ pc = "idle"
    /\ nsessions = 0
    /\ \E u \in Units :
          tree' = IF u \in tree THEN tree \ {u} ELSE tree \cup {u}
    /\ UNCHANGED <<engine_vars, direct_vars>>

\* ------------------------------------------------------------ state store
\* faulty variant: no stored state counts as completed
get_completed_units_none(states, prompt_id) == {}

\* StateManager.get_completed_units
get_completed_units(states, prompt_id) ==
    {states[i].unit : i \in {j \in DOMAIN states :
        /\ states[j].prompt_id = prompt_id
        /\ states[j].status = "completed"
        /\ states[j].unit # NoUnit}}

\* faulty variant: a single-scope prompt never counts as completed
is_prompt_completed_never(states, prompt_id) == FALSE

\* StateManager.is_prompt_completed(prompt_id, agent_name), available_units
\* left at its default None
is_prompt_completed(states, prompt_id) ==
    \E i \in DOMAIN states :
        /\ states[i].prompt_id = prompt_id
        /\ states[i].status = "completed"
        /\ states[i].unit = NoUnit

\* faulty variant: nothing is cleared
\* StateManager.is_prompt_completed(prompt_id, agent_name, available_units)
\* for a list of available units
is_prompt_completed_units(states, prompt_id, available_units) ==
    LET prompt_states == SelectSeq(states, LAMBDA s : s.prompt_id = prompt_id)
    IN  IF prompt_states = <<>> THEN FALSE
        ELSE IF Len(available_units) = 0
        THEN \E i \in DOMAIN prompt_states :
                /\ prompt_states[i].status = "completed"
                /\ prompt_states[i].unit = NoUnit
        ELSE Cardinality(get_completed_units(states, prompt_id))
                = Len(available_units)

clear_prompt_execution_state_keep(states, prompt_id) == states

\* faulty variant: the states of every prompt are cleared
clear_prompt_execution_state_all(states, prompt_id) == <<>>

\* StateManager.clear_prompt_execution_state(prompt_id, agent_name)
clear_prompt_execution_state(states, prompt_id) ==
    SelectSeq(states, LAMBDA s : s.prompt_id # prompt_id)

\* the units of the stored states of a prompt that have one of the statuses
UnitsWithStatus(states, prompt_id, statuses) ==
    {states[i].unit : i \in {j \in DOMAIN states :
        /\ states[j].prompt_id = prompt_id
        /\ states[j].unit # NoUnit
        /\ states[j].status \in statuses}}

\* StateManager.get_resumption_options; an empty available_units is replaced
\* by detect_units(); completion_percentage is kept as its integer part
get_resumption_options(states, prompt_id, given_units) ==
    LET available_units == IF given_units = <<>> THEN detect_units
                           ELSE given_units
        completed_units == get_completed_units(states, prompt_id)
        failed_units == UnitsWithStatus(states, prompt_id, {"failed"})
        pending_units ==
            UnitsWithStatus(states, prompt_id, {"pending", "running"})
        remaining_units ==
            SelectSeq(available_units, LAMBDA u : u \notin completed_units)
    IN  [available_units |-> available_units,
         completed_units |-> completed_units,
         failed_units |-> failed_units,
         pending_units |-> pending_units,
         remaining_units |-> remaining_units,
         can_resume |-> Len(remaining_units) > 0,
         completion_percentage |->
             IF available_units # <<>>
             THEN (Cardinality(completed_units) * 100)
                      \div Len(available_units)
             ELSE 0]

\* StateManager.update_execution_state(prompt_id, agent_name, unit,
\* status=status): the first state of (prompt, unit) is updated in place, or a
\* new one is created
update_execution_state(states, prompt_id, unit, status) ==
    LET hits == {i \in DOMAIN states :
                    states[i].prompt_id = prompt_id /\ states[i].unit = unit}
    IN  IF hits = {}
        THEN Append(states, [prompt_id |-> prompt_id, unit |-> unit,
                             status |-> status, retry_count |-> 0])
        ELSE LET first == CHOOSE i \in hits : \A j \in hits : i <= j
             IN  [states EXCEPT ![first].status = status]

NoOptions == [called |-> FALSE]

\* ----------------------------------------------------------------- engine
\* the resumption choice given for a prompt; "none" when resumption_choices
\* has no entry for it
\* "invalid" stands for every value handle_resumption_choice does not know
Choices == {"none", "resume", "restart", "force", "skip", "invalid"}

\* the choices a session is started with for prompt p
ChoicesOf(p) ==
    IF execution_scope(p) = "per-unit" THEN Choices
    ELSE {"none", "force", "skip"}

\* the prompt lists a session is started with
Selections == {<<"A">>, <<"B">>, <<"A", "B">>, <<"B", "A">>}

NoResult == [status |-> "absent", executions |-> <<>>]

NoSession ==
    [prompts |-> <<>>, choices |-> [p \in Prompts |-> "none"], pidx |-> 0,
     force_execute |-> FALSE, available_units |-> <<>>,
     plan |-> [p \in Prompts |-> [completed_units |-> {}, executions |-> <<>>]],
     after_stop |-> FALSE]

NoUnitRun ==
    [remaining_units |-> <<>>, uidx |-> 0, executions |-> <<>>,
     unit |-> NoUnit, attempt |-> 0]

\* ExecutionStats.__init__
NewStats ==
    [total_executions |-> 0, completed_executions |-> 0,
     failed_executions |-> 0, skipped_executions |-> 0,
     limit_hits |-> 0, retries |-> 0]

\* the outcomes of one agent process: its exit status and what its output
\* amounts to
FailKinds == {"RateLimited", "NetworkError", "ParseError", "PermissionError",
              "TimedOut", "UnknownFailure"}

\* the failures the agent process of an engine session ends with
EngineFailKinds == {"RateLimited", "TimedOut", "NetworkError"}

\* what complete_execution_entry finds in the output of an agent process that
\* exited with code 0: a failure pattern of the agent's family
HiddenFailKinds == {"RateLimited"}

\* success is the exit code 0 of the process (agent_handler), kind is what
\* the audit logger makes of its output and exit code
AgentOutcomes ==
    {[success |-> TRUE, kind |-> "Completed"]}
        \cup {[success |-> TRUE, kind |-> k] : k \in HiddenFailKinds}
        \cup {[success |-> FALSE, kind |-> k] : k \in EngineFailKinds}

\* AgentExecutionResult(success=False, output="", error="Execution stopped")
StoppedResult == [success |-> FALSE, kind |-> "Stopped"]

\* the fields of the dataclass agent_handler.AgentExecutionResult
AgentExecutionResultFields ==
    {"success", "output", "error", "duration", "timeout_occurred",
     "fallback_used", "model_used", "command_executed"}

\* the names bound where _execute_per_unit_prompt and
\* _execute_single_scope_prompt store a failed result
FailureBranchNames ==
    {"self", "prompt", "agent_config", "progress_callback", "force_execute",
     "agent_name", "available_units", "completed_units", "remaining_units",
     "executions", "unit", "result", "execution_result"}

\* the prompt the session is executing
CurPrompt == session.prompts[session.pidx]

\* the units the session's attempts for prompt p were made for, in order
InvokedUnits(p) ==
    LET idx == SelectSeq([i \in DOMAIN audit |-> i],
                         LAMBDA i : audit[i].prompt_id = p)
    IN  [k \in DOMAIN idx |-> audit[idx[k]].unit]

\* the number of attempts the session made for (p, unit)
Invocations(p, unit) ==
    Cardinality({i \in DOMAIN audit :
        audit[i].prompt_id = p /\ audit[i].unit = unit})

\* ------------------------------------------ edit and execution status
EditStatus == {"draft", "incomplete", "needs_work", "complete"}

ExecutionStatus == {"pending", "running", "done", "failed", "skipped", "cancelled"}

\* EditMetadata.can_transition_to: every other edit status is allowed
EditMetadata_can_transition_to(current, new_status) ==
    new_status \in EditStatus \ {current}

\* faulty variant: every execution status may follow every other
ExecutionMetadata_can_transition_to_any(current, new_status) == TRUE

\* ExecutionMetadata.can_transition_to
ExecutionMetadata_can_transition_to(current, new_status) ==
    CASE current = "pending" -> new_status \in {"running", "skipped", "cancelled"}
      [] current = "running" -> new_status \in {"done", "failed", "cancelled"}
      [] OTHER -> new_status = "pending"

\* the legacy execution_status kept in step with the execution status
legacy_mapping(status) ==
    CASE status = "pending" -> "not_started"
      [] status = "running" -> "in_progress"
      [] status = "done" -> "completed"
      [] OTHER -> "failed"

\* ExecutionMetadata.__post_init__: a status still pending is taken from the
\* legacy execution_status when that one tells more
status_enum(execution_status, status) ==
    IF execution_status # "not_started" /\ status = "pending"
    THEN CASE execution_status = "in_progress" -> "running"
           [] execution_status = "completed" -> "done"
           [] execution_status \in {"failed", "partial"} -> "failed"
           [] OTHER -> status
    ELSE status

\* ExecutionMetadata.is_executable
ExecutionMetadata_is_executable(status, edit_status) ==
    IF edit_status # "complete" THEN FALSE
    ELSE status \notin {"pending", "running"}

\* ExecutionMetadata._update_execution_status over the statuses of the results
_update_execution_status(statuses) ==
    IF statuses = <<>> THEN "not_started"
    ELSE IF \E i \in DOMAIN statuses : statuses[i] = "running" THEN "in_progress"
    ELSE IF \A i \in DOMAIN statuses : statuses[i] = "completed" THEN "completed"
    ELSE IF \A i \in DOMAIN statuses : statuses[i] \in {"completed", "failed"}
         THEN IF \E i \in DOMAIN statuses : statuses[i] = "completed"
              THEN "partial" ELSE "failed"
    ELSE IF \E i \in DOMAIN statuses : statuses[i] = "failed" THEN "partial"
    ELSE "in_progress"

\* a prompt of the YAML file as UnifiedPrompt reads it: metadata.edit.status,
\* metadata.execution.status and .execution_status, and whether a last
\* execution time and a last result text are recorded
PromptDoc(edit, status, execution_status, last_execution, last_result) ==
    [edit |-> edit, status |-> status, execution_status |-> execution_status,
     last_execution |-> last_execution, last_result |-> last_result]

\* UnifiedPrompt.edit_status
edit_status(doc) == doc.edit

\* UnifiedPrompt.execution_status
execution_status(doc) == status_enum(doc.execution_status, doc.status)

\* UnifiedPrompt.is_executable
is_executable(doc) ==
    ExecutionMetadata_is_executable(execution_status(doc), edit_status(doc))

\* UnifiedPrompt.update_edit_status
update_edit_status(doc, new_status) ==
    IF EditMetadata_can_transition_to(doc.edit, new_status)
    THEN [doc EXCEPT !.edit = new_status]
    ELSE doc

\* UnifiedPrompt.update_execution_status
update_execution_status(doc, new_status) ==
    IF ExecutionMetadata_can_transition_to(execution_status(doc), new_status)
    THEN [doc EXCEPT !.status = new_status,
                     !.execution_status = legacy_mapping(new_status)]
    ELSE doc

\* ConfigManager.update_prompt_edit_status: the status is written as given
update_prompt_edit_status(doc, new_status) ==
    [doc EXCEPT !.edit = new_status]

\* ConfigManager.update_prompt_execution_status
update_prompt_execution_status(doc, new_status) ==
    [doc EXCEPT !.status = new_status,
                !.execution_status = legacy_mapping(new_status),
                !.last_execution =
                    IF new_status \in {"running", "done", "failed"}
                    THEN TRUE ELSE @]

\* UnifiedPrompt.to_legacy_format, as _create_prompt_config keeps it in a
\* PromptConfig: neither status of the metadata is among the legacy fields
to_legacy_format(doc) ==
    [last_execution |-> doc.last_execution, last_result |-> doc.last_result]

\* UnifiedPrompt.from_legacy_prompt: the edit metadata is built without a
\* status, the execution metadata from the last result alone
from_legacy_prompt(legacy_data) ==
    LET statuses ==
            IF legacy_data.last_result \/ legacy_data.last_execution
            THEN <<IF legacy_data.last_result THEN "completed" ELSE "pending">>
            ELSE <<>>
    IN  PromptDoc("draft", "pending", _update_execution_status(statuses),
                  legacy_data.last_execution, legacy_data.last_result)

\* ConfigManager.get_executable_prompts over the loaded prompts
get_executable_prompts(docs) ==
    {p \in Prompts : is_executable(from_legacy_prompt(to_legacy_format(docs[p])))}

\* a prompt as it is created
NewPrompt == PromptDoc("draft", "pending", "not_started", FALSE, FALSE)

NewCatalog == [p \in Prompts |-> NewPrompt]

NoListing == [called |-> FALSE]

\* update_execution_status calls made in a row
MaxStatusCalls == 3

NoStatusCall == [calls |-> 0]

\* ------------------------------------------------ the audit trail on disk
\* readings of the wall clock, in the microseconds of strftime('%f')
MaxClock == 3

\* clock readings that fall into one second of strftime('%Y%m%d_%H%M%S')
TicksPerSecond == 2

\* entries one audit logger is asked to create
MaxAttempts == 3

\* datetime.now().strftime("%Y%m%d_%H%M%S") of a clock reading
Second(clock) == clock \div TicksPerSecond

\* AuditLogger.create_execution_entry: the execution id is the prompt id
\* followed by the reading of the clock
create_execution_entry(prompt_id, unit, clock) ==
    [execution_id |-> <<prompt_id, clock>>, prompt_id |-> prompt_id,
     unit |-> unit, completed |-> FALSE]

\* AuditLogger._save_execution_log: the name of the file of an entry
log_file(entry, clock) == <<Second(clock), entry.prompt_id, entry.execution_id>>

\* AuditLogger._save_execution_log: open(log_file, 'w') and json.dump; a file
\* of that name is replaced
_save_execution_log(files, entry, attempt, clock) ==
    {f \in files : f.name # log_file(entry, clock)}
        \cup {[name |-> log_file(entry, clock), attempt |-> attempt]}

\* an audit logger on an empty logs directory
NoTrail == [clock |-> 0, entries |-> <<>>, files |-> {}]

\* execute_prompts calls made while a session is suspended in an await
MaxRejected == 1

NoRejected == [calls |-> 0, raised |-> "none"]

\* faulty variant: execute_prompts does not look at is_running
already_in_progress_never(running) == FALSE

\* execute_prompts: `if self.is_running`, before anything is assigned
already_in_progress(running) == running

\* ------------------------------------------------ the entries of src/book
\* an entry of src/book: its name, cut into the text before the digits, the
\* digits and the text after them, and whether it is a directory
Entry(head, digits, tail, is_dir) == [head |-> head, digits |-> digits, tail |-> tail, is_dir |-> is_dir]

\* unit2, unit10, unit02, unit2-old, unitx, notes (directories) and the file
\* unit3
BookEntries ==
    {Entry("unit", <<2>>, "", TRUE), Entry("unit", <<1, 0>>, "", TRUE),
     Entry("unit", <<0, 2>>, "", TRUE), Entry("unit", <<2>>, "-old", TRUE),
     Entry("unit", <<>>, "x", TRUE), Entry("notes", <<>>, "", TRUE),
     Entry("unit", <<3>>, "", FALSE)}

RECURSIVE ToInt(_)
\* int(match.group(1)) of a string of decimal digits
ToInt(digits) ==
    IF digits = <<>> THEN 0
    ELSE 10 * ToInt(SubSeq(digits, 1, Len(digits) - 1)) + digits[Len(digits)]

\* int(re.match(r'unit(\d+)', x).group(1))
Ordinal(entry) == ToInt(entry.digits)

\* item.is_dir() and item.name.startswith("unit") and re.match(r'unit(\d+)')
IsUnitDir(entry) ==
    entry.is_dir /\ entry.head = "unit" /\ entry.digits # <<>>

RECURSIVE StableSort(_)
\* list.sort(key=Ordinal): ascending, entries of equal key keep their order
StableSort(s) ==
    IF s = <<>> THEN <<>>
    ELSE LET rest == StableSort(SubSeq(s, 1, Len(s) - 1))
             x == s[Len(s)]
             k == Cardinality({i \in DOMAIN rest : Ordinal(rest[i]) <= Ordinal(x)})
         IN  SubSeq(rest, 1, k) \o <<x>> \o SubSeq(rest, k + 1, Len(rest))

\* utils.detect_units over the entries of src/book in the order iterdir
\* yields them
detect_units_of(iterdir) == StableSort(SelectSeq(iterdir, IsUnitDir))

RECURSIVE Listings(_)
\* Path.iterdir: the entries of the directory, in arbitrary order
Listings(S) ==
    IF S = {} THEN {<<>>}
    ELSE UNION {{<<x>> \o t : t \in Listings(S \ {x})} : x \in S}

\* detect_units calls made on one project state
MaxDetections == 2

NoDetector == [book |-> {}, units |-> <<>>]

Init ==
    /\ tree \in SUBSET Units
    /\ profile \in EngineProfiles
    /\ store = <<>>
    /\ history = [p \in Prompts |-> <<>>]
    /\ prompt_text = [d \in Directives |-> <<"w">>]
    /\ log_entry = NoEntry
    /\ handler_call = NoCall
    /\ options = NoOptions
    /\ persisted = NoPersisted
    /\ status_call = NoStatusCall
    /\ detector = NoDetector
    /\ rejected = NoRejected
    /\ trail = NoTrail
    /\ listing = NoListing
    /\ catalog = NewCatalog
    /\ yaml_status = [p \in Prompts |-> "not_started"]
    /\ is_running = FALSE
    /\ should_stop = FALSE
    /\ pc = "idle"
    /\ session = NoSession
    /\ unitrun = NoUnitRun
    /\ audit = <<>>
    /\ results = [p \in Prompts |-> NoResult]
    /\ raised = "none"
    /\ current_stats = NewStats
    /\ nsessions = 0
    /\ built = NoBuild

\* ExecutionEngine.calculate_execution_plan, for one prompt
PlanFor(states, p, available_units) ==
    IF scope_type(p) = "per-unit"
    THEN LET info == get_resumption_options(states, p, available_units)
         IN  [completed_units |-> info.completed_units,
              executions |-> IF info.can_resume THEN info.remaining_units
                             ELSE available_units]
    ELSE [completed_units |-> {},
          executions |-> IF ~is_prompt_completed(states, p)
                         THEN <<NoUnit>> ELSE <<>>]

RECURSIVE SumLen(_, _)
SumLen(plan, ps) ==
    IF ps = <<>> THEN 0
    ELSE Len(plan[Head(ps)].executions) + SumLen(plan, Tail(ps))

\* The previous session of this engine ended by a stop request that was
\* observed right after unit 1 of A had completed: A was started with units
\* 1,2,3 live and none completed, and unit 1 is the one attempt made for it.
InterruptedAfterP1 ==
    /\ should_stop
    /\ raised = "none"
    /\ session.available_units = <<1, 2, 3>>
    /\ \/ session.plan["A"].completed_units = {}
       \/ session.choices["A"] \in {"restart", "force"}
    /\ InvokedUnits("A") = <<1>>
    /\ results["A"].executions = <<[unit |-> 1, status |-> "completed"]>>

\* execute_prompts, up to its loop over the prompts
StartSession ==
    /\ pc = "idle"
    /\ ~is_running
    /\ nsessions < MaxSessions
    /\ \E prompts \in Selections, choices \in [Prompts -> Choices] :
          /\ \A p \in Prompts \ Range(prompts) : choices[p] = "none"
          /\ \A p \in Range(prompts) : choices[p] \in ChoicesOf(p)
          /\ LET available_units == detect_units
                 plan == [p \in Prompts |->
                            IF p \in Range(prompts)
                            THEN PlanFor(store, p, available_units)
                            ELSE NoSession.plan[p]]
             IN  /\ session' = [prompts |-> prompts, choices |-> choices,
                                pidx |-> 1, force_execute |-> FALSE,
                                available_units |-> available_units,
                                plan |-> plan,
                                after_stop |-> InterruptedAfterP1]
                 /\ current_stats' =
                        [NewStats EXCEPT !.total_executions = SumLen(plan, prompts)]
    /\ is_running' = TRUE
    /\ should_stop' = FALSE
    /\ pc' = "prompt_loop"
    /\ unitrun' = NoUnitRun
    /\ audit' = <<>>
    /\ results' = [p \in Prompts |-> NoResult]
    /\ raised' = "none"
    /\ nsessions' = nsessions + 1
    /\ UNCHANGED <<tree, profile, store, history, yaml_status, prompt_text, direct_vars>>

\* the session ends: execute_prompts returns res, or raises exc (its finally
\* clause resets is_running either way)
EndSession(exc, res) ==
    /\ is_running' = FALSE
    /\ pc' = "idle"
    /\ raised' = exc
    /\ results' = res
    /\ session' = [session EXCEPT !.pidx = 0, !.force_execute = FALSE]
    /\ unitrun' = NoUnitRun

\* execute_prompts: the head of one iteration of `for prompt in prompts`,
\* with handle_resumption_choice, up to the first await of
\* _execute_single_prompt
PromptStep ==
    /\ pc = "prompt_loop"
    /\ IF session.pidx > Len(session.prompts) \/ should_stop
       THEN /\ EndSession("none", results)
            /\ UNCHANGED <<store, audit, current_stats>>
       ELSE LET p == CurPrompt
                choice == session.choices[p]
            IN  IF choice = "skip"
                THEN /\ results' = [results EXCEPT ![p] =
                            [status |-> "skipped",
                             executions |-> <<[unit |-> NoUnit,
                                               status |-> "skipped"]>>]]
                     /\ session' = [session EXCEPT !.pidx = @ + 1]
                     /\ UNCHANGED <<store, audit, current_stats, is_running,
                                    pc, raised, unitrun>>
                ELSE IF choice = "invalid"
                THEN /\ EndSession("ValueError", [q \in Prompts |-> NoResult])
                     /\ UNCHANGED <<store, audit, current_stats>>
                ELSE /\ store' = IF choice \in {"restart", "force"}
                                 THEN clear_prompt_execution_state(store, p)
                                 ELSE store
                     /\ session' = [session EXCEPT
                                        !.force_execute = (choice = "force")]
                     /\ pc' = "prompt_cb"
                     /\ UNCHANGED <<audit, current_stats, is_running, raised,
                                    results, unitrun>>
    /\ UNCHANGED <<tree, profile, history, yaml_status, prompt_text, should_stop, nsessions,
                   direct_vars>>

\* faulty variant: the remaining units are walked in reverse order
RemainingUnitsReversed(available_units, completed_units) ==
    Reverse(SelectSeq(available_units, LAMBDA u : u \notin completed_units))

\* _execute_per_unit_prompt:
\* remaining_units = [u for u in available_units if u not in completed_units]
RemainingUnits(available_units, completed_units) ==
    SelectSeq(available_units, LAMBDA u : u \notin completed_units)

\* faulty variant: every failed attempt is retried until max_retries is used up
retry_step_all(result, attempt) ==
    IF result.success THEN [next |-> "return", limit_hit |-> FALSE]
    ELSE IF attempt < max_retries THEN [next |-> "retry", limit_hit |-> FALSE]
    ELSE [next |-> "break", limit_hit |-> FALSE]

\* faulty variant: a rate-limited or timed-out first attempt is retried once
retry_step_limit(result, attempt) ==
    IF result.success THEN [next |-> "return", limit_hit |-> FALSE]
    ELSE IF result.kind \in {"RateLimited", "TimedOut"} /\ attempt = 0
    THEN [next |-> "retry", limit_hit |-> TRUE]
    ELSE [next |-> "break", limit_hit |-> FALSE]

\* _execute_with_retry: what the body of `for attempt in range(max_retries + 1)`
\* does with the result of the attempt. A failed result reaches
\* `if result.limit_hit`, an attribute AgentExecutionResult does not have.
retry_step(result, attempt) ==
    IF result.success THEN [next |-> "return", limit_hit |-> FALSE]
    ELSE IF "limit_hit" \notin AgentExecutionResultFields
    THEN [next |-> "AttributeError", limit_hit |-> FALSE]
    ELSE [next |-> "break", limit_hit |-> result.kind = "RateLimited"]

\* _store_execution_result: the state of (prompt, unit) is replaced in place,
\* or appended when there is none
_store_execution_result(states, prompt_id, unit, result) ==
    LET execution_state ==
            [prompt_id |-> prompt_id, unit |-> unit,
             status |-> IF result.success THEN "completed" ELSE "failed",
             retry_count |-> 0]
        hits == {i \in DOMAIN states :
                    states[i].prompt_id = prompt_id /\ states[i].unit = unit}
    IN  IF hits = {} THEN Append(states, execution_state)
        ELSE LET first == CHOOSE i \in hits : \A j \in hits : i <= j
             IN  [states EXCEPT ![first] = execution_state]

\* _update_yaml_metadata: the new execution_status of the prompt
YamlStatus(states, prompt_id, result) ==
    IF scope_type(prompt_id) = "per-unit"
    THEN IF Cardinality(get_completed_units(states, prompt_id))
                >= Len(detect_units)
         THEN "completed" ELSE "partial"
    ELSE IF result.success THEN "completed"
    ELSE IF result.kind = "RateLimited" THEN "failed_rate_limit"
    ELSE IF result.kind = "NetworkError" THEN "failed_network"
    ELSE IF result.kind = "PermissionError" THEN "failed_permissions"
    ELSE IF result.kind = "ParseError" THEN "failed_parsing"
    ELSE "failed"

\* _execute_per_unit_prompt / _execute_single_scope_prompt after
\* _execute_with_retry has returned result: the execution is listed, counted
\* and stored, up to the await of the progress callback. The failure branch
\* passes handler.agent_name, and no name handler is bound there.
Deliver(p, unit, result, aud, stats) ==
    LET ex == [unit |-> unit,
               status |-> IF result.success THEN "completed" ELSE "failed"]
        counted == IF result.success
                   THEN [stats EXCEPT !.completed_executions = @ + 1]
                   ELSE [stats EXCEPT !.failed_executions = @ + 1]
        stored == _store_execution_result(store, p, unit, result)
    IN  /\ audit' = aud
        /\ current_stats' = counted
        /\ IF ~result.success /\ "handler" \notin FailureBranchNames
           THEN /\ EndSession("NameError", [q \in Prompts |-> NoResult])
                /\ UNCHANGED <<store, history, yaml_status, prompt_text>>
           ELSE /\ store' = stored
                /\ history' = _update_yaml_results(history, p,
                        execution_result(unit, result, profile.agent_name,
                                         AgentOutput))
                /\ yaml_status' = [yaml_status EXCEPT ![p] =
                                        YamlStatus(stored, p, result)]
                /\ prompt_text' = save_yaml_multiline(prompt_text)
                /\ unitrun' = [unitrun EXCEPT !.unit = unit,
                                   !.executions = Append(@, ex)]
                /\ pc' = "post_cb"
                /\ UNCHANGED <<is_running, raised, results, session>>

\* _execute_with_retry from the head of its loop: the stop check, then
\* _run_prompt_async up to the await of the agent process
Attempt(p, unit, attempt, aud, stats) ==
    IF should_stop
    THEN Deliver(p, unit, StoppedResult, aud, stats)
    ELSE LET b == _build_agent_command(profile, PromptText(p),
                                       EngineCall.yolo_run, unit,
                                       execution_scope(p), Detected(TRUE))
         IN  IF b.error # "none"
             THEN /\ EndSession(b.error, [q \in Prompts |-> NoResult])
                  /\ audit' = aud
                  /\ current_stats' = stats
                  /\ UNCHANGED <<store, history, yaml_status, prompt_text>>
             ELSE /\ audit' = Append(aud,
                        [prompt_id |-> p, unit |-> unit, command |-> b.cmd,
                         status |-> "running", kind |-> "none"])
                  /\ unitrun' = [unitrun EXCEPT !.unit = unit,
                                                !.attempt = attempt]
                  /\ current_stats' = stats
                  /\ pc' = "in_flight"
                  /\ UNCHANGED <<store, history, yaml_status, prompt_text, is_running,
                                 raised, results, session>>

\* _execute_single_prompt after its progress callback: the per-unit prompt
\* computes its remaining units, the single prompt is skipped or attempted
PromptCallbackDone ==
    /\ pc = "prompt_cb"
    /\ LET p == CurPrompt
       IN  IF execution_scope(p) = "per-unit"
           THEN LET available_units == detect_units
                    completed_units ==
                        IF session.force_execute THEN {}
                        ELSE get_completed_units(store, p)
                IN  /\ unitrun' = [NoUnitRun EXCEPT
                            !.remaining_units =
                                RemainingUnits(available_units, completed_units),
                            !.uidx = 1]
                    /\ pc' = "unit_loop"
                    /\ UNCHANGED <<store, history, yaml_status, prompt_text, is_running,
                                   raised, results, session, audit,
                                   current_stats>>
           ELSE IF ~session.force_execute /\ is_prompt_completed(store, p)
           THEN /\ current_stats' =
                        [current_stats EXCEPT !.skipped_executions = @ + 1]
                /\ results' = [results EXCEPT ![p] =
                        [status |-> "skipped",
                         executions |-> <<[unit |-> NoUnit,
                                           status |-> "skipped"]>>]]
                /\ session' = [session EXCEPT !.pidx = @ + 1]
                /\ pc' = "prompt_loop"
                /\ UNCHANGED <<store, history, yaml_status, prompt_text, is_running, raised,
                               unitrun, audit>>
           ELSE Attempt(p, NoUnit, 0, audit, current_stats)
    /\ UNCHANGED <<tree, profile, should_stop, nsessions, direct_vars>>

\* _execute_per_unit_prompt: the head of one iteration of
\* `for unit in remaining_units`, up to the await of the progress callback
UnitStep ==
    /\ pc = "unit_loop"
    /\ IF unitrun.uidx > Len(unitrun.remaining_units) \/ should_stop
       THEN /\ results' = [results EXCEPT ![CurPrompt] =
                    [status |-> IF \A i \in DOMAIN unitrun.executions :
                                     unitrun.executions[i].status = "completed"
                                THEN "completed" ELSE "partial",
                     executions |-> unitrun.executions]]
            /\ session' = [session EXCEPT !.pidx = @ + 1]
            /\ unitrun' = NoUnitRun
            /\ pc' = "prompt_loop"
       ELSE /\ unitrun' = [unitrun EXCEPT
                               !.unit = unitrun.remaining_units[unitrun.uidx]]
            /\ pc' = "unit_cb"
            /\ UNCHANGED <<results, session>>
    /\ UNCHANGED <<tree, profile, store, history, yaml_status, prompt_text, is_running,
                   should_stop, audit, raised, current_stats, nsessions, direct_vars>>

\* _execute_per_unit_prompt after the progress callback of a unit:
\* _execute_with_retry is entered
UnitCallbackDone ==
    /\ pc = "unit_cb"
    /\ Attempt(CurPrompt, unitrun.unit, 0, audit, current_stats)
    /\ UNCHANGED <<tree, profile, should_stop, nsessions, direct_vars>>

\* The agent process ends: _run_prompt_async completes the audit entry and
\* returns, and _execute_with_retry decides on the result
AgentReturns ==
    /\ pc = "in_flight"
    /\ \E o \in AgentOutcomes :
          LET aud == [audit EXCEPT ![Len(audit)] =
                        [@ EXCEPT !.status = IF o.success THEN "completed"
                                             ELSE "failed",
                                  !.kind = o.kind]]
              step == retry_step(o, unitrun.attempt)
              stats == [current_stats EXCEPT
                          !.limit_hits = IF step.limit_hit THEN @ + 1 ELSE @,
                          !.retries = IF step.next = "return"
                                      THEN @ + unitrun.attempt ELSE @]
          IN  IF step.next \in {"return", "break"}
              THEN Deliver(CurPrompt, unitrun.unit, o, aud, stats)
              ELSE IF step.next = "retry"
              THEN Attempt(CurPrompt, unitrun.unit, unitrun.attempt + 1, aud,
                           stats)
              ELSE /\ EndSession(step.next, [q \in Prompts |-> NoResult])
                   /\ audit' = aud
                   /\ current_stats' = stats
                   /\ UNCHANGED <<store, history, yaml_status, prompt_text>>
    /\ UNCHANGED <<tree, profile, should_stop, nsessions, direct_vars>>

\* The progress callback awaited after a stored result returns: the per-unit
\* loop goes on, the single prompt returns its result to execute_prompts
PostCallbackDone ==
    /\ pc = "post_cb"
    /\ IF execution_scope(CurPrompt) = "per-unit"
       THEN /\ unitrun' = [unitrun EXCEPT !.uidx = @ + 1, !.unit = NoUnit,
                                          !.attempt = 0]
            /\ pc' = "unit_loop"
            /\ UNCHANGED <<results, session>>
       ELSE /\ results' = [results EXCEPT ![CurPrompt] =
                    [status |-> unitrun.executions[1].status,
                     executions |-> unitrun.executions]]
            /\ session' = [session EXCEPT !.pidx = @ + 1]
            /\ unitrun' = NoUnitRun
            /\ pc' = "prompt_loop"
    /\ UNCHANGED <<tree, profile, store, history, yaml_status, prompt_text, is_running,
                   should_stop, audit, raised, current_stats, nsessions, direct_vars>>

\* ExecutionEngine.stop_execution, called while the session is suspended in
\* an await (a progress callback or the agent process)
stop_execution ==
    /\ is_running
    /\ pc \in {"prompt_cb", "unit_cb", "in_flight", "post_cb"}
    /\ ~should_stop
    /\ should_stop' = TRUE
    /\ UNCHANGED <<tree, profile, store, history, yaml_status, prompt_text, is_running, pc,
                   session, unitrun, audit, results, raised, current_stats,
                   nsessions, direct_vars>>

Next ==
    \/ ChangeTree
    \/ StartSession
    \/ PromptStep
    \/ PromptCallbackDone
    \/ UnitStep
    \/ UnitCallbackDone
    \/ AgentReturns
    \/ PostCallbackDone
    \/ stop_execution

Spec == Init /\ [][Next]_vars

NextBuilder ==
    \/ ChangeTreeIdle
    \/ BuildCommand
    \/ BuildCommandAgain

\* the builder is called on a handler of its own, no engine session around
InitBuilder == Init /\ profile = ClaudeProfile

SpecBuilder == InitBuilder /\ [][NextBuilder]_vars

NextHandler ==
    \/ ChangeTreeIdle
    \/ ExecuteAgentPrompt
    \/ RunPromptCall

SpecHandler == Init /\ [][NextHandler]_vars

\* ------------------------------------------------ the stores, called directly
MaxHistory == 2

\* the 'prompt' strings a YAML file is written with
Texts ==
    {<<"w">>, <<"w", "sp", "w">>, <<"w", "nl", "w">>, <<"sp", "w">>,
     <<"w", "nl">>}

\* what the agent process wrote, as _store_execution_result is given it
Outputs == {<<"w">>, <<"w", "nl", "w">>}

InitStores ==
    /\ tree = Units
    /\ profile = ClaudeProfile
    /\ store = <<>>
    /\ history = [p \in Prompts |-> <<>>]
    /\ prompt_text \in [Directives -> Texts]
    /\ log_entry = NoEntry
    /\ handler_call = NoCall
    /\ options = NoOptions
    /\ persisted = NoPersisted
    /\ status_call = NoStatusCall
    /\ detector = NoDetector
    /\ rejected = NoRejected
    /\ trail = NoTrail
    /\ listing = NoListing
    /\ catalog = NewCatalog
    /\ yaml_status = [p \in Prompts |-> "not_started"]
    /\ is_running = FALSE
    /\ should_stop = FALSE
    /\ pc = "idle"
    /\ session = NoSession
    /\ unitrun = NoUnitRun
    /\ audit = <<>>
    /\ results = [p \in Prompts |-> NoResult]
    /\ raised = "none"
    /\ current_stats = NewStats
    /\ nsessions = 0
    /\ built = NoBuild

\* _store_execution_result(prompt, unit, result, agent_name) with its call of
\* _update_yaml_metadata
StoreResult ==
    /\ pc = "idle"
    /\ nsessions = 0
    /\ \E p \in Prompts, unit \in UnitArgs, result \in AgentOutcomes,
          output \in Outputs :
          /\ (unit = NoUnit) <=> (execution_scope(p) = "single")
          /\ Len(history[p]) < MaxHistory
          /\ LET stored == _store_execution_result(store, p, unit, result)
             IN  /\ store' = stored
                 /\ history' = _update_yaml_results(history, p,
                        execution_result(unit, result, profile.agent_name,
                                         output))
                 /\ yaml_status' = [yaml_status EXCEPT ![p] =
                                        YamlStatus(stored, p, result)]
                 /\ prompt_text' = save_yaml_multiline(prompt_text)
    /\ UNCHANGED <<tree, profile, is_running, should_stop, pc, session,
                   unitrun, audit, results, raised, current_stats, nsessions,
                   direct_vars>>

\* StateManager.clear_prompt_execution_state(prompt_id, agent_name)
ClearState ==
    /\ pc = "idle"
    /\ nsessions = 0
    /\ \E p \in Prompts :
          /\ \E i \in DOMAIN store : store[i].prompt_id = p
          /\ store' = clear_prompt_execution_state(store, p)
    /\ UNCHANGED <<tree, profile, history, yaml_status, prompt_text,
                   is_running, should_stop, pc, session, unitrun, audit,
                   results, raised, current_stats, nsessions, direct_vars>>

NextStores ==
    \/ StoreResult
    \/ ClearState

SpecStores == InitStores /\ [][NextStores]_vars

\* ----------------------------------------------- saving and loading records
MaxRecords == 2

\* the texts of the result and error_message fields of a record
RecordTexts == {<<"w">>, <<"w", "nl", "w">>, <<"bs", "n">>, <<"w", "sp">>}

\* the records saved: ExecutionState and ExecutionResult share these fields
Records ==
    {[unit |-> unit, status |-> "completed", result |-> t,
      error_message |-> NoText, retry_count |-> 0] :
          unit \in {NoUnit, 1}, t \in RecordTexts}
    \cup
    {[unit |-> unit, status |-> "failed", result |-> NoText,
      error_message |-> t, retry_count |-> 0] :
          unit \in {NoUnit, 1}, t \in RecordTexts}

\* the sequences of at most n records
RECURSIVE RecordSeqs(_)
RecordSeqs(n) ==
    IF n = 0 THEN {<<>>}
    ELSE RecordSeqs(n - 1)
            \cup {Append(t, r) :
                    t \in {u \in RecordSeqs(n - 1) : Len(u) = n - 1},
                    r \in Records}

\* save_execution_states followed by load_execution_states
SaveLoadStates ==
    /\ pc = "idle"
    /\ nsessions = 0
    /\ ~persisted.done
    /\ \E given \in RecordSeqs(MaxRecords) :
          /\ given # <<>>
          /\ persisted' = [done |-> TRUE, kind |-> "store", given |-> given,
                reloaded |-> load_execution_states(
                                 save_execution_states(given))]
    /\ UNCHANGED <<tree, engine_vars, built, log_entry, handler_call, options, catalog, listing, trail, rejected, detector, status_call>>

\* the results of a prompt written to the YAML file and read back
SaveLoadResults ==
    /\ pc = "idle"
    /\ nsessions = 0
    /\ ~persisted.done
    /\ \E given \in RecordSeqs(MaxRecords) :
          /\ given # <<>>
          /\ persisted' = [done |-> TRUE, kind |-> "history",
                given |-> given,
                reloaded |-> save_and_load_results(given)]
    /\ UNCHANGED <<tree, engine_vars, built, log_entry, handler_call, options, catalog, listing, trail, rejected, detector, status_call>>

NextRoundTrip ==
    \/ SaveLoadStates
    \/ SaveLoadResults

InitRoundTrip == Init /\ profile = ClaudeProfile /\ tree = Units

SpecRoundTrip == InitRoundTrip /\ [][NextRoundTrip]_vars

\* ------------------------------------------ the state manager, called directly
MaxStored == 3

\* the statuses update_execution_state is called with
UpdateStatuses == {"pending", "running", "failed", "completed"}

\* The project tree changes before the planner is asked
ChangeTreePlanner ==
    /\ pc = "idle"
    /\ nsessions = 0
    /\ ~options.called
    /\ \E u \in Units :
          tree' = IF u \in tree THEN tree \ {u} ELSE tree \cup {u}
    /\ UNCHANGED <<engine_vars, direct_vars>>

\* StateManager.update_execution_state for a unit of the per-unit prompt,
\* before the planner is asked
UpdateExecutionState ==
    /\ pc = "idle"
    /\ nsessions = 0
    /\ ~options.called
    /\ \E p \in Prompts, unit \in Units, status \in UpdateStatuses :
          /\ execution_scope(p) = "per-unit"
          /\ LET updated == update_execution_state(store, p, unit, status)
             IN  /\ Len(updated) <= MaxStored
                 /\ store' = updated
    /\ UNCHANGED <<tree, profile, history, yaml_status, prompt_text,
                   is_running, should_stop, pc, session, unitrun, audit,
                   results, raised, current_stats, nsessions, direct_vars>>

\* how many times the planner is asked in a row
MaxAsks == 3

\* the record of a call of get_resumption_options: its arguments, the store
\* and the live units it was made on, its answer and how many calls were made
OptionsAnswer(p, given_units, calls) ==
    [called |-> TRUE, prompt_id |-> p, given |-> given_units,
     live |-> detect_units, states |-> store,
     info |-> get_resumption_options(store, p, given_units),
     calls |-> calls]

\* StateManager.get_resumption_options(prompt_id, agent_name, available_units)
\* with the list detect_units() gives at that moment, or with an empty list
GetResumptionOptions ==
    /\ pc = "idle"
    /\ nsessions = 0
    /\ ~options.called
    /\ \E p \in Prompts, given_units \in {detect_units, <<>>} :
          /\ execution_scope(p) = "per-unit"
          /\ options' = OptionsAnswer(p, given_units, 1)
    /\ UNCHANGED <<tree, engine_vars, built, log_entry, handler_call, persisted, catalog, listing, trail, rejected, detector, status_call>>

\* faulty variant: the second call marks the remaining units as pending
GetResumptionOptionsAgain_marking ==
    /\ pc = "idle"
    /\ nsessions = 0
    /\ options.called
    /\ options.calls < MaxAsks
    /\ options' = OptionsAnswer(options.prompt_id, options.given,
                                options.calls + 1)
    /\ store' = IF options.info.remaining_units = <<>> THEN store
                ELSE update_execution_state(store, options.prompt_id,
                         options.info.remaining_units[1], "completed")
    /\ UNCHANGED <<tree, profile, history, yaml_status, prompt_text,
                   is_running, should_stop, pc, session, unitrun, audit,
                   results, raised, current_stats, nsessions, built,
                   log_entry, handler_call, persisted, catalog, listing, trail, rejected, detector, status_call>>

\* The same call again, nothing executed and the tree unchanged in between
GetResumptionOptionsAgain ==
    /\ pc = "idle"
    /\ nsessions = 0
    /\ options.called
    /\ options.calls < MaxAsks
    /\ options' = OptionsAnswer(options.prompt_id, options.given,
                                options.calls + 1)
    /\ UNCHANGED <<tree, engine_vars, built, log_entry, handler_call, persisted, catalog, listing, trail, rejected, detector, status_call>>

NextPlanner ==
    \/ ChangeTreePlanner
    \/ UpdateExecutionState
    \/ GetResumptionOptions
    \/ GetResumptionOptionsAgain

InitPlanner == Init /\ profile = ClaudeProfile

SpecPlanner == InitPlanner /\ [][NextPlanner]_vars

\* ------------------------------------------- the audit logger, called directly
\* the sequences of at most n words
RECURSIVE WordSeqs(_)
WordSeqs(n) ==
    IF n = 0 THEN {<<>>}
    ELSE WordSeqs(n - 1)
            \cup {Append(t, w) : t \in {u \in WordSeqs(n - 1) : Len(u) = n - 1},
                                 w \in Words}

\* what the process wrote to its standard output
Stdouts == {<<>>, <<"ok">>, <<"ERROR:">>}

\* create_execution_entry done, and the process has ended with the output,
\* the exit code and possibly the exception that complete_execution_entry is
\* about to be given
InitClassifier ==
    /\ tree = Units
    /\ profile = ClaudeProfile
    /\ store = <<>>
    /\ history = [p \in Prompts |-> <<>>]
    /\ prompt_text = [d \in Directives |-> <<"w">>]
    /\ \E agent_name \in AgentNames, stdout \in Stdouts,
          stderr \in WordSeqs(MaxWords), exit_code \in {0, 1},
          exception \in BOOLEAN :
          log_entry = [NoEntry EXCEPT !.agent_name = agent_name,
                                      !.stdout = stdout, !.stderr = stderr,
                                      !.exit_code = exit_code,
                                      !.exception = exception]
    /\ yaml_status = [p \in Prompts |-> "not_started"]
    /\ is_running = FALSE
    /\ should_stop = FALSE
    /\ pc = "idle"
    /\ session = NoSession
    /\ unitrun = NoUnitRun
    /\ audit = <<>>
    /\ results = [p \in Prompts |-> NoResult]
    /\ raised = "none"
    /\ current_stats = NewStats
    /\ nsessions = 0
    /\ built = NoBuild
    /\ handler_call = NoCall
    /\ options = NoOptions
    /\ persisted = NoPersisted
    /\ status_call = NoStatusCall
    /\ detector = NoDetector
    /\ rejected = NoRejected
    /\ trail = NoTrail
    /\ listing = NoListing
    /\ catalog = NewCatalog

\* AuditLogger.complete_execution_entry
CompleteEntry ==
    /\ ~log_entry.completed
    /\ log_entry.agent_name # "None"
    /\ log_entry' = complete_execution_entry(log_entry, log_entry.stdout,
                        log_entry.stderr, log_entry.exit_code,
                        log_entry.exception)
    /\ UNCHANGED <<tree, engine_vars, built, handler_call, options, persisted, catalog, listing, trail, rejected, detector, status_call>>

NextClassifier == CompleteEntry

SpecClassifier == InitClassifier /\ [][NextClassifier]_vars

TypeOK ==
    /\ tree \subseteq Units
    /\ pc \in {"idle", "prompt_loop", "prompt_cb", "unit_loop", "unit_cb",
               "in_flight", "post_cb"}
    /\ is_running = (pc # "idle")
    /\ nsessions \in 0..MaxSessions

\* ------------------------------------------------------------------ claims
\* the session's audit entries for prompt p, in the order they were created
AuditOf(p) == SelectSeq(audit, LAMBDA e : e.prompt_id = p)

\* a session has ended and the engine is idle
SessionOver == pc = "idle" /\ nsessions > 0

\* the result of an ended attempt is in the state store and in the history
Persisted(e) ==
    /\ \E i \in DOMAIN store :
          /\ store[i].prompt_id = e.prompt_id
          /\ store[i].unit = e.unit
          /\ store[i].status = e.status
    /\ \E i \in DOMAIN history[e.prompt_id] :
          /\ history[e.prompt_id][i].unit = e.unit
          /\ history[e.prompt_id][i].success = (e.status = "completed")

LimitKinds == {"RateLimited", "TimedOut"}

Completed3 ==
    <<[unit |-> 1, status |-> "completed"], [unit |-> 2, status |-> "completed"],
      [unit |-> 3, status |-> "completed"]>>

\* a session of a profile with continuation support that ran A over the live
\* units 1,2,3, none completed before, was not stopped and had every
\* invocation succeed
C1_Case ==
    /\ SessionOver
    /\ raised = "none"
    /\ ~should_stop
    /\ Truthy(profile.param_continue)
    /\ "A" \in Range(session.prompts)
    /\ session.choices["A"] # "skip"
    /\ session.available_units = <<1, 2, 3>>
    /\ session.plan["A"].completed_units = {}
    /\ \A i \in DOMAIN audit : audit[i].status = "completed"

\* C1: a run over live units 1,2,3, none completed, all invocations
\* succeeding, invokes the agent for A exactly three times in the order 1,2,3,
\* returns exactly the three results in that order, and only the commands of
\* units 2 and 3 carry the continuation flag.
C1_ThreeInOrder ==
    C1_Case =>
        /\ InvokedUnits("A") = <<1, 2, 3>>
        /\ results["A"].executions = Completed3
        /\ ~HasFlag(AuditOf("A")[1].command, profile.param_continue)
        /\ HasFlag(AuditOf("A")[2].command, profile.param_continue)
        /\ HasFlag(AuditOf("A")[3].command, profile.param_continue)

C1_Witness == C1_Case /\ Len(AuditOf("A")) = 3

\* the first element of a list, when it has one
IsFirst(unit, units) == Len(units) > 0 /\ units[1] = unit

\* an unattended build of a claude command whose detect_units() call returned
BuiltClaude ==
    /\ built.called
    /\ built.yolo_run
    /\ built.agent_config.agent_name = "claude"

BuiltFlag == HasFlag(built.out.cmd, "--continue")

C3_Eligibility ==
    (BuiltClaude /\ built.detected.ok
        /\ Truthy(built.agent_config.param_continue)) =>
        /\ built.scope = "per-unit" =>
              \A i \in DOMAIN built.detected.units :
                  built.unit = built.detected.units[i] =>
                      /\ built.eligible <=> (i > 1)
                      /\ BuiltFlag <=> (i > 1)
        /\ built.scope = "single" => (~built.eligible /\ ~BuiltFlag)

C3_Witness ==
    /\ BuiltClaude
    /\ built.scope = "per-unit"
    /\ Len(built.detected.units) = 3
    /\ built.unit = built.detected.units[3]
    /\ BuiltFlag

\* C4: a failing unit never makes execute_prompts raise, and the returned
\* results hold an entry for every unit that was attempted.
C4_Contained ==
    SessionOver =>
        /\ raised = "none"
        /\ \A i \in DOMAIN audit :
              \E k \in DOMAIN results[audit[i].prompt_id].executions :
                  results[audit[i].prompt_id].executions[k].unit = audit[i].unit

\* the engine's agent family does not fall back by itself and a fallback model
\* is configured
FallbackCase ==
    profile.agent_name # "claude" /\ Truthy(profile.fallback_model)

C6_RetryLimit ==
    /\ \A i \in DOMAIN audit :
          Invocations(audit[i].prompt_id, audit[i].unit) <= 2
    /\ \A i, j \in DOMAIN audit :
          (/\ i < j
           /\ audit[i].status = "failed"
           /\ audit[i].kind \notin LimitKinds) =>
              ~(/\ audit[j].prompt_id = audit[i].prompt_id
                /\ audit[j].unit = audit[i].unit)

C6_Witness ==
    /\ SessionOver
    /\ audit # <<>>
    /\ audit[Len(audit)].kind = "NetworkError"
    /\ Len(audit) > 1

\* C7: the result of every attempt that has ended, completed or failed, is in
\* the Execution State Store and in the directive's history.
C7_Persisted ==
    \A i \in DOMAIN audit :
        audit[i].status \in {"completed", "failed"} => Persisted(audit[i])

\* C8: a session with action resume on A that follows a session stopped after
\* unit 1 of the live units 1,2,3 completed invokes the agent for unit 2 and
\* then unit 3 and never for unit 1: the units invoked are always a prefix of
\* 2,3 and, when the session ends without a stop or a failure, exactly 2,3.
C8_Case ==
    /\ session.after_stop
    /\ "A" \in Range(session.prompts)
    /\ session.choices["A"] = "resume"
    /\ session.available_units = <<1, 2, 3>>

C8_Resume ==
    C8_Case =>
        /\ IsPrefix(InvokedUnits("A"), <<2, 3>>)
        /\ (SessionOver /\ ~should_stop /\ raised = "none") =>
                InvokedUnits("A") = <<2, 3>>

C8_Witness ==
    /\ C8_Case
    /\ SessionOver
    /\ InvokedUnits("A") = <<2, 3>>

\* C9: a unit that was in flight when the stop was requested has its result
\* persisted when the engine halts.
C9_StopPersists ==
    (SessionOver /\ should_stop) =>
        \A i \in DOMAIN audit : Persisted(audit[i])

ChosenUnits(p) ==
    LET choice == session.choices[p]
    IN  IF choice = "skip" THEN <<>>
        ELSE IF execution_scope(p) = "per-unit"
        THEN IF choice \in {"restart", "force"} THEN session.available_units
             ELSE RemainingUnits(session.available_units,
                                 session.plan[p].completed_units)
        ELSE <<NoUnit>>

\* what one step of the engine does under the choice made for a prompt
C11_Step ==
    /\ (pc = "prompt_loop" /\ session.pidx <= Len(session.prompts)
            /\ ~should_stop) =>
          LET p == CurPrompt
              choice == session.choices[p]
          IN  /\ choice = "resume" => store' = store
              /\ choice \in {"restart", "force"} =>
                    /\ \A i \in DOMAIN store' : store'[i].prompt_id # p
                    /\ store' = SelectSeq(store, LAMBDA r : r.prompt_id # p)
              /\ choice = "skip" =>
                    /\ store' = store
                    /\ audit' = audit
                    /\ results'[p].status = "skipped"
              /\ choice = "invalid" =>
                    /\ raised' = "ValueError"
                    /\ pc' = "idle"
                    /\ store' = store
                    /\ audit' = audit
    /\ \A i \in DOMAIN audit' :
          session'.choices[audit'[i].prompt_id] # "skip"
    /\ (pc # "idle" /\ pc' = "idle" /\ raised' = "none" /\ ~should_stop') =>
          \A p \in Range(session.prompts) :
              session.choices[p] \in {"resume", "restart", "force", "skip"} =>
                  InvokedUnits(p)' = ChosenUnits(p)

\* C11: resume clears no stored state and runs only the live units without a
\* completed record; restart and force remove every stored state of the
\* prompt and run the full live unit set; skip invokes nothing, leaves the
\* store alone and yields a skipped result; any other choice raises.
C11_Choices == [][C11_Step]_vars

C11_Witness ==
    /\ SessionOver
    /\ raised = "none"
    /\ session.choices["A"] = "restart"
    /\ session.plan["A"].completed_units # {}
    /\ Len(session.available_units) >= 2
    /\ InvokedUnits("A") = session.available_units

\* the serialized records of the directives other than p: in the YAML file
\* and in the Execution State Store
OtherRecords(p) ==
    [yaml |-> [d \in Directives \ {p} |->
                  [prompt |-> prompt_text[d],
                   results |-> IF d \in Prompts THEN history[d] ELSE <<>>,
                   execution_status |->
                       IF d \in Prompts THEN yaml_status[d] ELSE "not_started"]],
     states |-> SelectSeq(store, LAMBDA r : r.prompt_id # p)]

\* the directive a step updates: the one whose history or stored states change
Updated(p) ==
    \/ history'[p] # history[p]
    \/ SelectSeq(store', LAMBDA r : r.prompt_id = p)
            # SelectSeq(store, LAMBDA r : r.prompt_id = p)

\* C12: a step that updates the stored state or the history of one directive
\* leaves the serialized record of every other directive as it was, in the
\* YAML file and in the Execution State Store.
C12_Isolation ==
    [][\A p \in Prompts : Updated(p) => OtherRecords(p)' = OtherRecords(p)]_vars

\* some pattern of the agent's list is found in stdout or in stderr
PatternFound(e) ==
    \E i \in DOMAIN PatternsFor(e.agent_name) :
        \/ Search(PatternsFor(e.agent_name)[i], e.stdout)
        \/ Search(PatternsFor(e.agent_name)[i], e.stderr)

\* C13: the recorded status is completed iff the exit code is 0, there was
\* no exception and no pattern is found in the output; in particular a
\* pattern found at exit code 0 gives a failure status.
C13_ExitCode ==
    log_entry.completed =>
        (log_entry.execution_status = "completed" <=>
            /\ log_entry.exit_code = 0
            /\ ~log_entry.exception
            /\ ~PatternFound(log_entry))

C13_Witness ==
    /\ log_entry.completed
    /\ log_entry.exit_code = 0
    /\ ~log_entry.exception
    /\ log_entry.stdout = <<"ok">>
    /\ log_entry.stderr = <<"permission", "denied">>
    /\ log_entry.execution_status = "failed_permissions"

\* the patterns of the agent's family, and whether pattern i of a list is
\* the first of it found in the combined output of e
FamilyPatterns(agent_name) ==
    IF NameContains(agent_name, "claude") THEN CLAUDE_PATTERNS
    ELSE IF NameContains(agent_name, "gemini") THEN GEMINI_PATTERNS
    ELSE <<>>

Combined(e) == e.stdout \o <<"\n">> \o e.stderr

FirstFound(patterns, i, e) ==
    /\ Search(patterns[i], Combined(e))
    /\ \A j \in 1..(i - 1) : ~Search(patterns[j], Combined(e))

\* C14: the status is that of the first pattern of the agent's family found
\* in the combined output, else that of the first general pattern found;
\* the evidence is non-null exactly when a pattern is found, and without an
\* exception at exit code 0 the status is completed exactly when none is.
C14_FirstPattern ==
    log_entry.completed =>
        LET e == log_entry
            family == FamilyPatterns(e.agent_name)
            in_family == \E i \in DOMAIN family : Search(family[i], Combined(e))
            in_general == \E i \in DOMAIN GENERAL_PATTERNS :
                              Search(GENERAL_PATTERNS[i], Combined(e))
        IN  /\ \A i \in DOMAIN family :
                  FirstFound(family, i, e) =>
                      e.execution_status = family[i].status
            /\ ~in_family =>
                  \A i \in DOMAIN GENERAL_PATTERNS :
                      FirstFound(GENERAL_PATTERNS, i, e) =>
                          e.execution_status = GENERAL_PATTERNS[i].status
            /\ (e.error_analysis # None) <=> (in_family \/ in_general)
            /\ (e.exit_code = 0 /\ ~e.exception) =>
                  ((e.execution_status = "completed" /\ e.error_analysis = None)
                      <=> ~(in_family \/ in_general))

\* "network timeout" from a gemini agent: the family pattern (network) wins
\* over the general one (timeout)
C14_Witness ==
    /\ log_entry.completed
    /\ log_entry.agent_name = "gemini-pro"
    /\ log_entry.stderr = <<"network", "timeout">>
    /\ log_entry.execution_status = "failed_network"

C16_FailClosed ==
    (built.called /\ ~built.detected.ok) =>
        /\ ~built.eligible
        /\ ~BuiltFlag
        /\ built.agent_config.agent_name \in {"claude", "gemini"} =>
              built.out.error = "none"

C16_Witness ==
    /\ BuiltClaude
    /\ ~built.detected.ok
    /\ built.scope = "per-unit"
    /\ built.unit = 2
    /\ Truthy(built.agent_config.param_continue)
    /\ built.out.error = "none"

\* what a build decides on the live list alone
LiveDecision(scope, unit, live) ==
    /\ scope = "per-unit"
    /\ unit # NoUnit
    /\ Len(live) >= 2
    /\ unit # live[1]

\* a step that is a call of the builder
C17_Step ==
    (built'.called /\ built' # built) =>
        /\ built'.detected.ok => built'.detected.units = SortedSeq(tree)
        /\ built'.detected.ok =>
              (built'.eligible <=>
                  LiveDecision(built'.scope, built'.unit, SortedSeq(tree)))
        /\ (built'.yolo_run /\ built'.agent_config.agent_name = "claude"
                /\ Truthy(built'.agent_config.param_continue)) =>
              (HasFlag(built'.out.cmd, "--continue") <=> built'.eligible)

\* C17: every build takes the list of the units from the project tree as it
\* is at that call and decides on it alone, whatever an earlier build for the
\* same unit saw.
C17_LiveRecompute == [][C17_Step]_vars

\* the second build for a unit that has become the first one: it had the flag
\* and has lost it
C17_Witness ==
    /\ BuiltClaude
    /\ built.calls = 2
    /\ built.prev_eligible
    /\ built.detected.ok
    /\ Len(built.detected.units) >= 2
    /\ built.unit = built.detected.units[1]
    /\ ~BuiltFlag

\* the flags that a profile can declare
ContinueFlag == "--continue"
EditFlag == "--dangerously-skip-permissions"

\* C18: a command built in plan mode holds neither the continuation flag nor
\* the edit permission flag, whatever the scope, the unit, the live units and
\* the profile; a command built in unattended mode holds the edit permission
\* flag exactly when the profile allows editing and declares the flag.
C18_PlanMode ==
    (built.called /\ built.out.error = "none") =>
        /\ ~built.yolo_run =>
              /\ ~HasFlag(built.out.cmd, ContinueFlag)
              /\ ~HasFlag(built.out.cmd, EditFlag)
        /\ built.yolo_run =>
              (HasFlag(built.out.cmd, EditFlag) <=>
                  /\ built.agent_config.edition_available
                  /\ Truthy(built.agent_config.param_yolo_mode))

\* a plan mode build for a later unit of a per-unit directive, with a profile
\* that allows editing and declares both flags
C18_Witness ==
    /\ built.called
    /\ ~built.yolo_run
    /\ built.agent_config.agent_name = "claude"
    /\ built.agent_config.edition_available
    /\ built.agent_config.param_yolo_mode = EditFlag
    /\ built.agent_config.param_continue = ContinueFlag
    /\ built.eligible
    /\ built.out.error = "none"
    /\ ~HasFlag(built.out.cmd, ContinueFlag)
    /\ ~HasFlag(built.out.cmd, EditFlag)

\* the launches of the recorded call that were given a timeout
TimedLaunches ==
    {i \in DOMAIN handler_call.result.runs :
        handler_call.result.runs[i].timeout # None}

\* C19: execute_agent_prompt gives the agent process a timeout only in plan
\* mode with a timeout given; in unattended mode no launch has a timeout even
\* when a timeout is passed; the call of the engine is unattended and passes
\* no timeout.
C19_TimeoutPlanOnly ==
    handler_call.called =>
        /\ TimedLaunches # {} =>
              (~handler_call.yolo_run /\ Truthy(handler_call.timeout))
        /\ \A i \in TimedLaunches :
              handler_call.result.runs[i].timeout = handler_call.timeout
        /\ handler_call.yolo_run => TimedLaunches = {}
        /\ handler_call.caller = "engine" =>
              /\ handler_call.yolo_run
              /\ handler_call.timeout = None
              /\ TimedLaunches = {}

\* an unattended call that was passed a timeout and launched the process
\* without it
C19_Witness ==
    /\ handler_call.called
    /\ handler_call.caller = "direct"
    /\ handler_call.yolo_run
    /\ handler_call.timeout = "30"
    /\ Len(handler_call.result.runs) = 1
    /\ handler_call.result.runs[1].timeout = None
    /\ handler_call.result.success

\* the units that the answer of the planner for the recorded call returns in
\* one of its sets
ReturnedUnits ==
    options.info.completed_units \cup options.info.failed_units
        \cup options.info.pending_units \cup Range(options.info.remaining_units)

\* C20, first part: remaining is the live units that have no completed state,
\* in the order of the live list.
C20_Remaining ==
    options.called =>
        options.info.remaining_units =
            SelectSeq(options.live,
                LAMBDA u : ~\E i \in DOMAIN options.states :
                    /\ options.states[i].prompt_id = options.prompt_id
                    /\ options.states[i].unit = u
                    /\ options.states[i].status = "completed")

\* C20: the answer of the planner is the stored states cut down to the live
\* units: remaining is the live units without a completed state in live
\* order, no unit outside the live list is in completed, failed, pending or
\* remaining, and the completion percentage lies between 0 and 100.
C20_Planner ==
    options.called =>
        /\ C20_Remaining
        /\ ReturnedUnits \subseteq Range(options.live)
        /\ options.info.completion_percentage >= 0
        /\ options.info.completion_percentage <= 100

\* a completed stored state of the directive for no unit
CompletedNull(states, p) ==
    \E i \in DOMAIN states :
        /\ states[i].prompt_id = p
        /\ states[i].unit = NoUnit
        /\ states[i].status = "completed"

\* a step that computes the plan of a session, or that decides on a
\* single-scope directive without force
C21_Step ==
    /\ (pc = "idle" /\ pc' = "prompt_loop") =>
          \A p \in Range(session'.prompts) :
              execution_scope(p) = "single" =>
                  Len(session'.plan[p].executions) =
                      IF CompletedNull(store, p) THEN 0 ELSE 1
    /\ (/\ pc = "prompt_cb" /\ pc' # "prompt_cb"
        /\ execution_scope(CurPrompt) = "single"
        /\ ~session.force_execute) =>
          IF CompletedNull(store, CurPrompt)
          THEN /\ audit' = audit
               /\ pc' = "prompt_loop"
               /\ results'[CurPrompt].status = "skipped"
          ELSE /\ pc' # "prompt_loop"
               /\ (pc' = "in_flight") =>
                     /\ Len(audit') = Len(audit) + 1
                     /\ audit'[Len(audit')].prompt_id = CurPrompt
                     /\ audit'[Len(audit')].unit = NoUnit
               /\ (~should_stop /\ profile.agent_name \in {"claude", "gemini"})
                     => pc' = "in_flight"

C22_Step ==
    (options' # options) =>
        /\ store' = store
        /\ options.called =>
              /\ options'.info.remaining_units = options.info.remaining_units
              /\ options'.info = options.info

C23_OnePerPartition ==
    \A p \in Prompts :
        \A i, j \in DOMAIN history[p] :
            i # j => history[p][i].unit # history[p][j].unit

\* a step that writes a result into the history of a directive
C24_Step ==
    \A p \in Prompts :
        (history'[p] # history[p]) =>
            /\ Len(history'[p]) = Len(history[p]) + 1
            /\ SubSeq(history'[p], 1, Len(history[p])) = history[p]

C25_StoreRoundTrip ==
    (persisted.done /\ persisted.kind = "store") =>
        persisted.reloaded = persisted.given

\* C25: records that are saved and loaded again come back equal on every
\* field and in the same order, from the state store and from the history of
\* results in the YAML file.
C25_RoundTrip ==
    persisted.done => persisted.reloaded = persisted.given

\* ------------------------------------- the prompts that can be executed
\* the catalogue a session may find: prompts never run, and prompts the engine
\* has run, whose metadata carries a legacy execution_status and a last result
InitCatalog ==
    /\ Init
    /\ profile = ClaudeProfile
    /\ tree = Units

\* UnifiedPrompt.update_edit_status on prompt p
UpdateEditStatus ==
    /\ pc = "idle" /\ nsessions = 0 /\ ~listing.called
    /\ \E p \in Prompts, new_status \in EditStatus :
          catalog' = [catalog EXCEPT ![p] = update_edit_status(@, new_status)]
    /\ UNCHANGED <<tree, engine_vars, built, log_entry, handler_call, options, persisted, listing, trail, rejected, detector, status_call>>

\* UnifiedPrompt.update_execution_status on prompt p
UpdateExecutionStatus ==
    /\ pc = "idle" /\ nsessions = 0 /\ ~listing.called
    /\ \E p \in Prompts, new_status \in ExecutionStatus :
          catalog' = [catalog EXCEPT ![p] = update_execution_status(@, new_status)]
    /\ UNCHANGED <<tree, engine_vars, built, log_entry, handler_call, options, persisted, listing, trail, rejected, detector, status_call>>

\* ConfigManager.update_prompt_edit_status
UpdatePromptEditStatus ==
    /\ pc = "idle" /\ nsessions = 0 /\ ~listing.called
    /\ \E p \in Prompts, new_status \in EditStatus :
          catalog' = [catalog EXCEPT ![p] = update_prompt_edit_status(@, new_status)]
    /\ UNCHANGED <<tree, engine_vars, built, log_entry, handler_call, options, persisted, listing, trail, rejected, detector, status_call>>

\* ConfigManager.update_prompt_execution_status
UpdatePromptExecutionStatus ==
    /\ pc = "idle" /\ nsessions = 0 /\ ~listing.called
    /\ \E p \in Prompts, new_status \in ExecutionStatus :
          catalog' = [catalog EXCEPT ![p] =
                         update_prompt_execution_status(@, new_status)]
    /\ UNCHANGED <<tree, engine_vars, built, log_entry, handler_call, options, persisted, listing, trail, rejected, detector, status_call>>

\* _update_yaml_metadata after a run of prompt p: the last result and the
\* legacy execution_status are recorded, the execution status is not touched
RecordRun ==
    /\ pc = "idle" /\ nsessions = 0 /\ ~listing.called
    /\ \E p \in Prompts, s \in {"completed", "partial", "failed"} :
          catalog' = [catalog EXCEPT ![p].execution_status = s,
                                     ![p].last_execution = TRUE,
                                     ![p].last_result = TRUE]
    /\ UNCHANGED <<tree, engine_vars, built, log_entry, handler_call, options, persisted, listing, trail, rejected, detector, status_call>>

\* ConfigManager.get_executable_prompts
GetExecutablePrompts ==
    /\ pc = "idle" /\ nsessions = 0 /\ ~listing.called
    /\ listing' = [called |-> TRUE, executable |-> get_executable_prompts(catalog)]
    /\ UNCHANGED <<tree, engine_vars, built, log_entry, handler_call, options, persisted, catalog, trail, rejected, detector, status_call>>

NextCatalog ==
    \/ UpdateEditStatus
    \/ UpdateExecutionStatus
    \/ UpdatePromptEditStatus
    \/ UpdatePromptExecutionStatus
    \/ RecordRun
    \/ GetExecutablePrompts

SpecCatalog == InitCatalog /\ [][NextCatalog]_vars

\* the prompts whose edit status is complete and whose execution status is
\* neither pending nor running
Executable ==
    {p \in Prompts :
        /\ edit_status(catalog[p]) = "complete"
        /\ execution_status(catalog[p]) \notin {"pending", "running"}}

\* C26, the predicate alone: is_executable holds of a prompt exactly when its
\* edit status is complete and its execution status is neither pending nor
\* running, in every state the status updates reach.
C26_Predicate ==
    \A p \in Prompts : is_executable(catalog[p]) <=> p \in Executable

\* C26: a prompt is executable if and only if its edit status is complete and
\* its execution status is neither pending nor running, and
\* get_executable_prompts returns exactly the prompts that are.
C26_Executable ==
    /\ C26_Predicate
    /\ listing.called => listing.executable = Executable

\* the stored status of (prompt_id, unit): the status of its record in the
\* state store, pending when the store has no record of it
StoredStatus(states, prompt_id, unit) ==
    LET hits == {i \in DOMAIN states :
                    states[i].prompt_id = prompt_id /\ states[i].unit = unit}
    IN  IF hits = {} THEN "pending"
        ELSE states[CHOOSE i \in hits : \A j \in hits : i <= j].status

C27_Step ==
    /\ (pc' = "in_flight") =>
          StoredStatus(store', CurPrompt', unitrun'.unit) = "running"
    /\ \A p \in Prompts, u \in Units \cup {NoUnit} :
          LET before == StoredStatus(store, p, u)
              after == StoredStatus(store', p, u)
          IN  /\ (after \in {"completed", "failed"} /\ after # before) =>
                     before = "running"
              /\ (before = "failed" /\ after = "pending") =>
                     /\ pc = "prompt_loop"
                     /\ session.choices[p] \in {"restart", "force"}

\* C27: the record of every (prompt, unit) goes pending, running, then
\* completed or failed: the unit is stored as running before its agent
\* invocation starts, a record becomes completed or failed only from running,
\* and a failed record becomes pending again only by an explicit re-run.
C27_StateMachine == [][C27_Step]_vars

\* ---------------------------------------------- attempts in the audit trail
\* time passes: the wall clock shows its next reading
Tick ==
    /\ pc = "idle" /\ nsessions = 0
    /\ trail.clock < MaxClock
    /\ trail' = [trail EXCEPT !.clock = @ + 1]
    /\ UNCHANGED <<tree, engine_vars, built, log_entry, handler_call, options, persisted, catalog, listing, rejected, detector, status_call>>

\* AuditLogger.create_execution_entry for an attempt of prompt p
CreateExecutionEntry ==
    /\ pc = "idle" /\ nsessions = 0
    /\ Len(trail.entries) < MaxAttempts
    /\ \E p \in Prompts, unit \in Units \cup {NoUnit} :
          /\ (unit = NoUnit) <=> (execution_scope(p) = "single")
          /\ trail' = [trail EXCEPT !.entries =
                          Append(@, create_execution_entry(p, unit, trail.clock))]
    /\ UNCHANGED <<tree, engine_vars, built, log_entry, handler_call, options, persisted, catalog, listing, rejected, detector, status_call>>

\* AuditLogger.complete_execution_entry of the entry of attempt i, with
\* _save_execution_log
CompleteExecutionEntry ==
    /\ pc = "idle" /\ nsessions = 0
    /\ \E i \in DOMAIN trail.entries :
          /\ ~trail.entries[i].completed
          /\ trail' = [trail EXCEPT
                          !.entries[i].completed = TRUE,
                          !.files = _save_execution_log(@, trail.entries[i], i,
                                                        trail.clock)]
    /\ UNCHANGED <<tree, engine_vars, built, log_entry, handler_call, options, persisted, catalog, listing, rejected, detector, status_call>>

NextTrail ==
    \/ Tick
    \/ CreateExecutionEntry
    \/ CompleteExecutionEntry

InitTrail == Init /\ profile = ClaudeProfile /\ tree = Units

SpecTrail == InitTrail /\ [][NextTrail]_vars

\* C28, the ids alone: no two attempts have the same execution id.
C28_UniqueIds ==
    \A i, j \in DOMAIN trail.entries :
        i # j => trail.entries[i].execution_id # trail.entries[j].execution_id

\* C28: the audit trail is append-only with one durable record per attempt:
\* the execution id of an attempt differs from the id of every other attempt,
\* and the record of every completed attempt is in the logs directory,
\* whatever was recorded after it.
C28_AuditTrail ==
    /\ C28_UniqueIds
    /\ \A i \in DOMAIN trail.entries :
          trail.entries[i].completed => \E f \in trail.files : f.attempt = i

\* ------------------------------------------- a call during a session
\* execute_prompts called by another task while the session is suspended in
\* an await: RuntimeError("Execution already in progress") is raised before
\* anything is assigned; otherwise the call would go on to take the engine
\* over (is_running, should_stop and current_stats are assigned anew)
ExecutePromptsWhileRunning ==
    /\ pc \in {"prompt_cb", "unit_cb", "in_flight", "post_cb"}
    /\ rejected.calls < MaxRejected
    /\ IF already_in_progress(is_running)
       THEN /\ rejected' = [calls |-> rejected.calls + 1,
                            raised |-> "RuntimeError"]
            /\ UNCHANGED <<is_running, should_stop, current_stats>>
       ELSE /\ rejected' = [calls |-> rejected.calls + 1, raised |-> "none"]
            /\ is_running' = TRUE
            /\ should_stop' = FALSE
            /\ current_stats' = NewStats
    /\ UNCHANGED <<tree, profile, store, history, yaml_status, prompt_text, pc,
                   session, unitrun, audit, results, raised, nsessions,
                   built, log_entry, handler_call, options, persisted, catalog,
                   listing, trail, detector, status_call>>

NextSequential ==
    \/ Next
    \/ ExecutePromptsWhileRunning

InitSequential == Init /\ profile = ClaudeProfile /\ tree = Units

SpecSequential == InitSequential /\ [][NextSequential]_vars

\* the attempts whose agent invocation has started and not returned
InFlight == {i \in DOMAIN audit : audit[i].status = "running"}

C29_Step ==
    (rejected'.calls # rejected.calls) =>
        /\ rejected'.raised = "RuntimeError"
        /\ UNCHANGED <<tree, engine_vars, built, log_entry, handler_call,
                       options, persisted, catalog, listing, trail, detector, status_call>>

\* C29: execution is sequential and single-session: a call of execute_prompts
\* made while a session is active raises an error and changes no state, at
\* most one agent invocation is in flight at any time, and is_running is
\* false again once the session has ended, normally, by a stop request or by
\* an exception.
C29_Sequential ==
    /\ [][C29_Step]_vars
    /\ [](Cardinality(InFlight) <= 1)
    /\ []((pc = "in_flight") <=> (is_running /\ InFlight # {}))
    /\ [](SessionOver => ~is_running)

\* a call was rejected during a session that then ended by a stop request
C29_Witness ==
    /\ rejected.calls = 1
    /\ rejected.raised = "RuntimeError"
    /\ SessionOver
    /\ should_stop
    /\ ~is_running

\* ------------------------------------------------- the partition detector
\* the project is edited: an entry of src/book appears or disappears
ChangeBook ==
    /\ pc = "idle" /\ nsessions = 0
    /\ detector.units = <<>>
    /\ \E e \in BookEntries :
          detector' = [detector EXCEPT !.book =
                           IF e \in @ THEN @ \ {e} ELSE @ \cup {e}]
    /\ UNCHANGED <<tree, engine_vars, built, log_entry, handler_call, options, persisted, catalog, listing, trail, rejected, status_call>>

\* utils.detect_units, called on the project as it is
DetectUnits ==
    /\ pc = "idle" /\ nsessions = 0
    /\ Len(detector.units) < MaxDetections
    /\ \E iterdir \in Listings(detector.book) :
          detector' = [detector EXCEPT !.units =
                           Append(@, detect_units_of(iterdir))]
    /\ UNCHANGED <<tree, engine_vars, built, log_entry, handler_call, options, persisted, catalog, listing, trail, rejected, status_call>>

NextDetector ==
    \/ ChangeBook
    \/ DetectUnits

InitDetector == Init /\ profile = ClaudeProfile /\ tree = Units

SpecDetector == InitDetector /\ [][NextDetector]_vars

\* C30, the answer of one call: exactly the unit directories, each once, in
\* ascending order of the embedded ordinal.
C30_Ordered ==
    \A n \in DOMAIN detector.units :
        LET units == detector.units[n]
        IN  /\ Range(units) = {e \in detector.book : IsUnitDir(e)}
            /\ \A i, j \in DOMAIN units :
                  i < j => (units[i] # units[j] /\ Ordinal(units[i]) <= Ordinal(units[j]))

\* C30: the detector returns exactly the unit directories of the project in
\* ascending order of the embedded ordinal (unit2 before unit10), and every
\* call made on the same project state returns the identical sequence, also
\* when two directories carry the same ordinal.
C30_Detector ==
    /\ C30_Ordered
    /\ \A n, m \in DOMAIN detector.units : detector.units[n] = detector.units[m]

\* ------------------------------------- the execution status of a prompt
\* UnifiedPrompt.update_execution_status(new_status) on prompt p, with the
\* value it returns
UpdateStatusCall ==
    /\ pc = "idle" /\ nsessions = 0
    /\ status_call.calls < MaxStatusCalls
    /\ \E p \in Prompts, new_status \in ExecutionStatus :
          /\ catalog' = [catalog EXCEPT ![p] = update_execution_status(@, new_status)]
          /\ status_call' = [calls |-> status_call.calls + 1, prompt_id |-> p,
                             requested |-> new_status,
                             returned |-> ExecutionMetadata_can_transition_to(
                                              execution_status(catalog[p]), new_status)]
    /\ UNCHANGED <<tree, engine_vars, built, log_entry, handler_call, options, persisted, listing, trail, rejected, detector>>

\* _update_yaml_metadata after a run of prompt p, between two calls
RecordRunBetween ==
    /\ pc = "idle" /\ nsessions = 0
    /\ status_call.calls < MaxStatusCalls
    /\ \E p \in Prompts, s \in {"completed", "partial", "failed"} :
          /\ catalog[p].execution_status # s
          /\ catalog' = [catalog EXCEPT ![p].execution_status = s,
                                        ![p].last_execution = TRUE,
                                        ![p].last_result = TRUE]
    /\ UNCHANGED <<tree, engine_vars, built, log_entry, handler_call, options, persisted, listing, trail, rejected, detector, status_call>>

NextTransitions ==
    \/ UpdateStatusCall
    \/ RecordRunBetween

InitTransitions == Init /\ profile = ClaudeProfile /\ tree = Units

SpecTransitions == InitTransitions /\ [][NextTransitions]_vars

\* the transitions of the execution status the state machine allows
Allowed(from, to) ==
    \/ from = "pending" /\ to \in {"running", "skipped", "cancelled"}
    \/ from = "running" /\ to \in {"done", "failed", "cancelled"}
    \/ from \in {"done", "failed", "skipped", "cancelled"} /\ to = "pending"

C31_Step ==
    (status_call'.calls # status_call.calls) =>
        LET p == status_call'.prompt_id
            to == status_call'.requested
            from == execution_status(catalog[p])
        IN  /\ \A q \in Prompts \ {p} : catalog'[q] = catalog[q]
            /\ IF Allowed(from, to)
               THEN /\ status_call'.returned
                    /\ execution_status(catalog'[p]) = to
               ELSE /\ ~status_call'.returned
                    /\ catalog'[p] = catalog[p]
            /\ (from = "failed") =>
                   execution_status(catalog'[p]) \in {"failed", "pending"}

\* C31: update_status changes the execution status only along
\* pending -> running, skipped, cancelled; running -> done, failed, cancelled;
\* done, failed, skipped, cancelled -> pending. Every other request, a
\* request for the current status included, returns False and leaves the
\* status and the legacy execution_status as they were, so failed reaches
\* running or done only through pending.
C31_Transitions == [][C31_Step]_vars

\* a request for the current status of a failed prompt was refused
C31_Witness ==
    /\ status_call.calls > 0
    /\ ~status_call.returned
    /\ status_call.requested = "failed"
    /\ execution_status(catalog[status_call.prompt_id]) = "failed"

\* the recorded call ran in plan mode with a timeout and its first agent
\* process timed out
PrimaryTimedOut ==
    /\ handler_call.called
    /\ ~handler_call.yolo_run
    /\ Truthy(handler_call.timeout)
    /\ handler_call.result.runs # <<>>
    /\ handler_call.outcome = "TimeoutExpired"

\* the recorded call launched the agent a second time, and only a second
\* time, with the fallback model in the place of the primary model
OneFallbackLaunch ==
    LET runs == handler_call.result.runs
        cfg == handler_call.agent_config
    IN  /\ Len(runs) = 2
        /\ \E i \in DOMAIN runs[1].cmd :
              /\ runs[1].cmd[i] = cfg.model
              /\ runs[2].cmd = [runs[1].cmd EXCEPT ![i] = cfg.fallback_model]

\* the recorded call launched the agent once and failed with a timeout
NoFallbackLaunch ==
    /\ Len(handler_call.result.runs) = 1
    /\ ~handler_call.result.success
    /\ handler_call.result.timeout_occurred

\* a successful fallback result names both models
FallbackResultMarked ==
    (handler_call.result.success /\ Len(handler_call.result.runs) = 2) =>
        /\ handler_call.result.fallback_used
        /\ handler_call.result.model_used =
               <<handler_call.agent_config.model, "->",
                 handler_call.agent_config.fallback_model>>

\* C32 as stated: in plan mode, after a timeout of the first invocation, an
\* agent other than claude with a fallback model is invoked exactly once more
\* with the fallback model substituted; claude, or an agent without fallback
\* model, is not invoked again and the result is a timeout failure; a
\* successful fallback result has fallback_used and model_used
\* 'primary -> fallback'.
C32_Original ==
    PrimaryTimedOut =>
        /\ IF /\ handler_call.agent_config.agent_name # "claude"
              /\ Truthy(handler_call.agent_config.fallback_model)
           THEN OneFallbackLaunch
           ELSE NoFallbackLaunch
        /\ FallbackResultMarked

\* C32, amended: the one further invocation is made when the command of the
\* first invocation names the primary model; a gemini command without -m is
\* not run again and the result is a failure without timeout_occurred and
\* without fallback_used.
C32_Amended ==
    PrimaryTimedOut =>
        /\ IF /\ handler_call.agent_config.agent_name # "claude"
              /\ Truthy(handler_call.agent_config.fallback_model)
           THEN IF Truthy(handler_call.agent_config.model)
                THEN OneFallbackLaunch
                ELSE /\ Len(handler_call.result.runs) = 1
                     /\ ~handler_call.result.success
                     /\ ~handler_call.result.timeout_occurred
                     /\ ~handler_call.result.fallback_used
           ELSE NoFallbackLaunch
        /\ FallbackResultMarked

\* a gemini call in plan mode timed out twice: the fallback model was run
\* once and nothing after it
C32_Witness ==
    /\ PrimaryTimedOut
    /\ handler_call.agent_config.agent_name = "gemini"
    /\ handler_call.fallback_outcome = "TimeoutExpired"
    /\ OneFallbackLaunch
    /\ handler_call.result.timeout_occurred
    /\ handler_call.result.fallback_used

\* the attempt of audit entry i ends in this step and the step records its
\* unit as completed, in the state store or in the history of its prompt
RecordsCompleted(i) ==
    LET e == audit'[i]
    IN  /\ i \in DOMAIN audit
        /\ audit[i].status = "running"
        /\ e.status # "running"
        /\ \/ /\ store' # store
              /\ StoredStatus(store', e.prompt_id, e.unit) = "completed"
           \/ /\ Len(history'[e.prompt_id]) > Len(history[e.prompt_id])
              /\ history'[e.prompt_id][Len(history'[e.prompt_id])].unit = e.unit
              /\ history'[e.prompt_id][Len(history'[e.prompt_id])].success

C33_Step ==
    \A i \in DOMAIN audit' : RecordsCompleted(i) => audit'[i].kind = "Completed"

\* C33: the engine records a unit as completed, in the state store and in
\* the history, only if the audit record of the attempt classifies it as
\* completed; an attempt that exits with code 0 and whose output matches a
\* failure pattern is recorded as failed.
C33_CompletedIsClassified == [][C33_Step]_vars

\* audit entry i is the first invocation the session makes for its directive
FirstOfSession(i) ==
    \A j \in DOMAIN audit : j < i => audit[j].prompt_id # audit[i].prompt_id

\* C34 as stated: a command carrying the continuation flag is issued only
\* when an earlier invocation for the same directive has already run in the
\* same session; the first invocation a session makes for a directive,
\* including a resumed session that starts at a later unit, has no flag.
C34_Original ==
    \A i \in DOMAIN audit :
        FirstOfSession(i) => ~HasFlag(audit[i].command, ContinueFlag)

\* the invocation issued in this step carries the flag exactly when the
\* profile declares one, the directive is per-unit, and its unit is not the
\* first of the unit list detected as the command is built
C34_Step ==
    Len(audit') > Len(audit) =>
        LET e == audit'[Len(audit')]
        IN  HasFlag(e.command, ContinueFlag) <=>
                /\ profile.param_continue = ContinueFlag
                /\ execution_scope(e.prompt_id) = "per-unit"
                /\ e.unit # NoUnit
                /\ Len(detect_units) > 1
                /\ e.unit # detect_units[1]

\* C34 (amended): the continuation flag depends on the position of the unit
\* in the live unit list and not on the invocations of the session: it is
\* carried exactly by the commands of a per-unit directive, under a profile
\* with continuation support, for a unit that is not the first live unit.
\* The first invocation for a directive has no flag when it is for the first
\* live unit, and carries it when a resumed session starts at a later unit.
C34_Amended == [][C34_Step]_vars

\* a resumed session whose first invocation for A is for unit 2 of the live
\* units 1,2,3 and carries the flag
C34_Witness ==
    /\ Len(AuditOf("A")) >= 1
    /\ session.choices["A"] = "resume"
    /\ session.available_units = <<1, 2, 3>>
    /\ AuditOf("A")[1].unit = 2
    /\ HasFlag(AuditOf("A")[1].command, ContinueFlag)

\* every unit of the live list has a completed record for prompt p
LiveUnitsCompleted(states, p) ==
    \A u \in Range(detect_units) : StoredStatus(states, p, u) = "completed"

C35_Step ==
    /\ (/\ Len(history'["A"]) > Len(history["A"])
        /\ yaml_status'["A"] = "completed") => LiveUnitsCompleted(store', "A")
    /\ is_prompt_completed_units(store', "A", detect_units')
            => (detect_units' # <<>> => \A u \in Range(detect_units') :
                    StoredStatus(store', "A", u) = "completed")

\* C35: a per-unit directive is marked completed, in the history status and
\* by is_prompt_completed, only when every unit of the current live list has a
\* completed record; completed records of units that left the live list never
\* make up for a live unit that is not completed.
C35_CompletedCoversLive == [][C35_Step]_vars

\* the step in which _execute_per_unit_prompt returns its result
PerUnitReturns ==
    /\ pc = "unit_loop"
    /\ pc' = "prompt_loop"
    /\ execution_scope(CurPrompt) = "per-unit"

C36_Step ==
    PerUnitReturns =>
        /\ results'[CurPrompt].status = "completed"
                => LiveUnitsCompleted(store, CurPrompt)
        /\ (should_stop /\ unitrun.uidx <= Len(unitrun.remaining_units))
                => results'[CurPrompt].status # "completed"

\* C36: the result returned for a per-unit directive has status completed
\* only if every live unit has a completed record when the loop of the
\* directive ends; when a stop request keeps remaining units from running,
\* the returned status is not completed.
C36_ReturnedCompleted == [][C36_Step]_vars

\* a session that ended without a stop request and without an exception,
\* with the live unit list it started with, in which no directive was
\* skipped by choice and no attempt was retried
C37_Case ==
    /\ SessionOver
    /\ raised = "none"
    /\ ~should_stop
    /\ session.available_units = detect_units
    /\ \A p \in Range(session.prompts) : session.choices[p] # "skip"
    /\ \A i, j \in DOMAIN audit :
          (audit[i].prompt_id = audit[j].prompt_id
                /\ audit[i].unit = audit[j].unit) => i = j

\* C37: the plan computed at the start of a session agrees with what the
\* session executes: with no stop request and no change of the live unit
\* list, total_executions is the number of agent invocations made, and for
\* each directive the plan lists exactly the units executed under its
\* resumption choice.
C37_PlanAgrees ==
    C37_Case =>
        /\ current_stats.total_executions = Len(audit)
        /\ \A p \in Range(session.prompts) :
              session.plan[p].executions = InvokedUnits(p)

\* ------------------------------------- the execution state store of one agent
\* faulty variant: the existing state of (prompt, unit) is not removed
add_execution_state_keep(states, state) == Append(states, state)

\* StateManager.add_execution_state: the states of the same (prompt, unit)
\* are removed, then the new state is appended
add_execution_state(states, state) ==
    Append(SelectSeq(states, LAMBDA s : ~(s.prompt_id = state.prompt_id
                                            /\ s.unit = state.unit)),
           state)

\* StateManager.cleanup_old_states for the file of one agent: old is the set
\* of the positions of the states whose end_time lies before the cutoff
cleanup_old_states(states, old) ==
    LET kept == {i \in DOMAIN states :
                    ~(i \in old /\ states[i].status \in {"completed", "failed"})}
        idx == SelectSeq([i \in DOMAIN states |-> i], LAMBDA i : i \in kept)
    IN  [k \in DOMAIN idx |-> states[idx[k]]]

\* StateManager.add_execution_state(state), called directly
AddExecutionState ==
    /\ pc = "idle"
    /\ nsessions = 0
    /\ \E p \in Prompts, unit \in UnitArgs, status \in UpdateStatuses :
          /\ (unit = NoUnit) <=> (execution_scope(p) = "single")
          /\ LET added == add_execution_state(store,
                        [prompt_id |-> p, unit |-> unit, status |-> status,
                         retry_count |-> 0])
             IN  /\ Len(added) <= MaxStored
                 /\ store' = added
    /\ UNCHANGED <<tree, profile, history, yaml_status, prompt_text,
                   is_running, should_stop, pc, session, unitrun, audit,
                   results, raised, current_stats, nsessions, direct_vars>>

\* StateManager.cleanup_old_states(days), some of the stored states being
\* older than the cutoff
CleanupOldStates ==
    /\ pc = "idle"
    /\ nsessions = 0
    /\ \E old \in SUBSET DOMAIN store :
          /\ old # {}
          /\ store' = cleanup_old_states(store, old)
    /\ UNCHANGED <<tree, profile, history, yaml_status, prompt_text,
                   is_running, should_stop, pc, session, unitrun, audit,
                   results, raised, current_stats, nsessions, direct_vars>>

\* the results stored directly: completed, and failed by a rate limit
StoredOutcomes == {o \in AgentOutcomes : o.kind \in {"Completed", "RateLimited"}}

\* _store_execution_result(prompt, unit, result, agent_name) with its call of
\* _update_yaml_metadata, between the calls of the state manager
StoreExecutionResult ==
    /\ pc = "idle"
    /\ nsessions = 0
    /\ \E p \in Prompts, unit \in UnitArgs, result \in StoredOutcomes :
          /\ (unit = NoUnit) <=> (execution_scope(p) = "single")
          /\ Len(history["A"]) + Len(history["B"]) < MaxHistory
          /\ LET stored == _store_execution_result(store, p, unit, result)
             IN  /\ Len(stored) <= MaxStored
                 /\ store' = stored
                 /\ history' = _update_yaml_results(history, p,
                        execution_result(unit, result, profile.agent_name,
                                         AgentOutput))
                 /\ yaml_status' = [yaml_status EXCEPT ![p] =
                                        YamlStatus(stored, p, result)]
                 /\ prompt_text' = save_yaml_multiline(prompt_text)
    /\ UNCHANGED <<tree, profile, is_running, should_stop, pc, session,
                   unitrun, audit, results, raised, current_stats, nsessions,
                   direct_vars>>

NextStateStore ==
    \/ AddExecutionState
    \/ UpdateExecutionState
    \/ StoreExecutionResult
    \/ ClearState
    \/ CleanupOldStates

InitStateStore == Init /\ profile = ClaudeProfile /\ tree = Units

SpecStateStore == InitStateStore /\ [][NextStateStore]_vars

\* the records an agent's store holds for (prompt, unit)
RecordsOf(states, p, unit) ==
    SelectSeq(states, LAMBDA s : s.prompt_id = p /\ s.unit = unit)

C38_OnePerKey ==
    \A p \in Prompts, unit \in UnitArgs : Len(RecordsOf(store, p, unit)) <= 1

\* a step that stores a result, for the unit of the history entry it adds
C38_Step ==
    \A p \in Prompts :
        Len(history'[p]) > Len(history[p]) =>
            LET unit == history'[p][Len(history'[p])].unit
            IN  /\ Len(RecordsOf(store', p, unit)) = 1
                /\ \A q \in Prompts, u \in UnitArgs :
                      (q # p \/ u # unit) =>
                          RecordsOf(store', q, u) = RecordsOf(store, q, u)

\* C38: after any sequence of add_execution_state, update_execution_state,
\* _store_execution_result, clear_prompt_execution_state and
\* cleanup_old_states from an empty store, the store of an agent holds at
\* most one record per (directive, partition), and storing a result for one
\* (directive, partition) leaves the records of every other one unchanged.
C38_StoreKeys == []C38_OnePerKey /\ [][C38_Step]_vars

\* a result was stored twice for unit 1 of A while the store held records of
\* unit 2 of A and of B
C38_Witness ==
    /\ Len(history["A"]) = 2
    /\ history["A"][1].unit = 1
    /\ history["A"][2].unit = 1
    /\ Len(RecordsOf(store, "A", 1)) = 1
    /\ Len(RecordsOf(store, "A", 2)) = 1
    /\ Len(RecordsOf(store, "B", NoUnit)) = 1
    /\ store[1].prompt_id = "B"

C39_Step ==
    \A p \in Prompts :
        execution_status(catalog'[p]) # execution_status(catalog[p]) =>
            ExecutionMetadata_can_transition_to(execution_status(catalog[p]),
                                                execution_status(catalog'[p]))

\* C39: every change of the persisted execution status of a directive, by
\* whichever operation performs it, follows the transition table of
\* ExecutionMetadata.can_transition_to: no operation moves a status from
\* done, failed, skipped or cancelled to running, or from pending to done or
\* failed.
C39_TableFollowed == [][C39_Step]_vars

\* the progress callback of a unit returns after a stop request arrived
\* while it was awaited
StoppedBeforeInvocation == pc = "unit_cb" /\ should_stop

C40_Step ==
    (StoppedBeforeInvocation /\ audit' = audit) =>
        /\ current_stats'.failed_executions = current_stats.failed_executions
        /\ StoredStatus(store', CurPrompt, unitrun.unit) = "failed"
                => StoredStatus(store, CurPrompt, unitrun.unit) = "failed"
        /\ \A i \in DOMAIN unitrun'.executions :
              (unitrun'.executions[i].unit = unitrun.unit
                    /\ unitrun'.executions[i].status = "failed")
                => i \in DOMAIN unitrun.executions

\* C40: a unit whose agent was never invoked is never recorded or counted as
\* failed: a stop request that arrives after the check between units and
\* before the invocation, while the progress callback is awaited, produces no
\* failed result, no failed stored record and no increment of the failed
\* count for that unit.
C40_NeverInvokedNotFailed == [][C40_Step]_vars

====
